---- MODULE Spec2Model ----
(***************************************************************************)
(* A model of HyprSupreme-Builder's plugin registry (src/src/plugins.rs),  *)
(* of its configuration loader and variable resolver (src/src/config.rs)   *)
(* and of its theme store (src/src/themes.rs).                             *)
(*                                                                         *)
(* The registry part keeps the PluginManager's two fields, the plugin      *)
(* directories on disk that discovery, install and uninstall touch, and a  *)
(* record of the last call with its result.  Recursive calls of the code   *)
(* are recursive operators; an unbounded recursion of the code is the      *)
(* result "StackOverflow", after which the process is gone.                *)
(***************************************************************************)
EXTENDS Integers, Sequences, FiniteSets, TLC

VARIABLES
    plugins,          \* PluginManager.plugins: name -> Plugin
    enabled_plugins,  \* PluginManager.enabled_plugins: Vec<String>
    fs,               \* plugin directories holding a manifest: path -> manifest
    last,             \* the last call of the registry and what it returned
    config,           \* the Config a resolve_variables call runs against
    rs,               \* the position of the resolve_variables call in progress
    load,             \* the position of the Config::from_file call in progress
    theme_cache,      \* ThemeManager.theme_cache: name -> Theme
    active_theme,     \* ThemeManager.active_theme: the Option<Theme> in the RwLock
    lock,             \* the RwLock of active_theme: its writer and its readers
    th                \* the callers of the ThemeManager: position and locals

loader_vars == <<load>>
theme_vars == <<theme_cache, active_theme, lock, th>>

vars == <<plugins, enabled_plugins, fs, last, config, rs, load,
          theme_cache, active_theme, lock, th>>

(***************************************************************************)
(* Bounds of the model.                                                    *)
(***************************************************************************)
MaxEdges == 2        \* dependency declarations over all discovered manifests
MaxPriority == 1     \* hook priorities are drawn from 0..MaxPriority
MaxInputLen == 2     \* pieces the string handed to resolve_variables is made of

Names == {"A", "B", "C"}

(***************************************************************************)
(* Sequence helpers.                                                       *)
(***************************************************************************)
Range(s) == {s[i] : i \in 1..Len(s)}

Contains(s, x) == \E i \in 1..Len(s) : s[i] = x

NoDup(s) == \A i, j \in 1..Len(s) : i # j => s[i] # s[j]

Perms(S) == {s \in [1..Cardinality(S) -> S] : NoDup(s)}

(***************************************************************************)
(* semver: versions are <<major, minor, patch>>; the requirements the      *)
(* manifests use are caret requirements "^a.b.c", kept as <<a, b, c>>.     *)
(***************************************************************************)
V120 == <<1, 2, 0>>
V200 == <<2, 0, 0>>
Caret100 == <<1, 0, 0>>

VersionLeq(a, b) ==
    \/ a[1] < b[1]
    \/ a[1] = b[1] /\ a[2] < b[2]
    \/ a[1] = b[1] /\ a[2] = b[2] /\ a[3] <= b[3]

\* VersionReq::matches for a caret requirement whose major is not 0
CaretMatches(req, version) == version[1] = req[1] /\ VersionLeq(req, version)

satisfies_requirement(manifest, requirement) ==
    CaretMatches(requirement, manifest.version)

(***************************************************************************)
(* Manifests and plugins.                                                  *)
(***************************************************************************)
Hook(name, priority) == [name |-> name, priority |-> priority]

\* a PluginCommand, by its name
Command(name) == [name |-> name]

\* a manifest that declares no commands
Manifest(name, version, deps, hooks) ==
    [name |-> name, version |-> version,
     dependencies |-> [d \in deps |-> Caret100], hooks |-> hooks,
     commands |-> <<>>]

\* Plugin::new: a freshly loaded plugin is Installed
PluginNew(manifest, directory) ==
    [manifest |-> manifest, directory |-> directory, state |-> "Installed"]

\* HashMap::insert and HashMap::remove on the plugins map
MapInsert(map, key, value) ==
    [k \in DOMAIN map \cup {key} |-> IF k = key THEN value ELSE map[k]]

MapRemove(map, key) == [k \in DOMAIN map \ {key} |-> map[k]]

EmptyMap == [k \in {} |-> 0]

\* A directory is <<root, base name>>.  PluginLoader::default searches the
\* per-user config directory ("cfg") before ./plugins ("loc"); "src" holds the
\* directories handed to install_plugin.
LoaderDirs == <<"cfg", "loc">>
Path(root, base) == <<root, base>>


(***************************************************************************)
(* The registry's operations.  A registry value is                         *)
(* [plugins, enabled, res, trace]: the two fields, the result of the call  *)
(* and the names whose state the call has set, in the order it set them.   *)
(* ord is the order in which this call's HashMap iterations yield names.   *)
(***************************************************************************)
Reg(p, e, r, t) == [plugins |-> p, enabled |-> e, res |-> r, trace |-> t]

Ret(reg, res) == [reg EXCEPT !.res = res]

\* the keys of a HashMap in iteration order
InOrder(ord, S) == SelectSeq(ord, LAMBDA n : n \in S)

SetState(p, name, state) == [p EXCEPT ![name].state = state]

RECURSIVE enable_plugin(_, _, _, _)
RECURSIVE enable_deps(_, _, _, _, _)

\* the loop with the version test after the dependency has been enabled
EnableDepsThenCheck(reg, name, deps, ord, stack) ==
    IF deps = <<>> THEN Ret(reg, "Ok")
    ELSE LET dep_name == Head(deps)
             dep_req == reg.plugins[name].manifest.dependencies[dep_name]
             r == IF Contains(reg.enabled, dep_name) THEN reg
                  ELSE enable_plugin(reg, dep_name, ord, stack)
         IN  IF dep_name \notin DOMAIN reg.plugins
             THEN Ret(reg, "DependencyMissing")
             ELSE IF r.res # "Ok" THEN r
             ELSE IF ~satisfies_requirement(reg.plugins[dep_name].manifest, dep_req)
             THEN Ret(r, "DependencyVersionMismatch")
             ELSE enable_deps(r, name, Tail(deps), ord, stack)

\* the loop over the cloned dependency map of name
enable_deps(reg, name, deps, ord, stack) ==
    IF deps = <<>> THEN Ret(reg, "Ok")
    ELSE LET dep_name == Head(deps)
             dep_req == reg.plugins[name].manifest.dependencies[dep_name]
         IN  IF dep_name \notin DOMAIN reg.plugins
             THEN Ret(reg, "DependencyMissing")
             ELSE IF ~satisfies_requirement(reg.plugins[dep_name].manifest, dep_req)
             THEN Ret(reg, "DependencyVersionMismatch")
             ELSE IF ~Contains(reg.enabled, dep_name)
             THEN LET r == enable_plugin(reg, dep_name, ord, stack)
                  IN  IF r.res # "Ok" THEN r
                      ELSE enable_deps(r, name, Tail(deps), ord, stack)
             ELSE enable_deps(reg, name, Tail(deps), ord, stack)

EnableBeforeDeps(reg, name, ord, stack) ==
    IF name \notin DOMAIN reg.plugins THEN Ret(reg, "NotFound")
    ELSE IF Contains(reg.enabled, name) THEN Ret(reg, "Ok")
    ELSE LET deps == InOrder(ord, DOMAIN reg.plugins[name].manifest.dependencies)
         IN  enable_deps(Reg(SetState(reg.plugins, name, "Enabled"),
                             Append(reg.enabled, name), "Ok",
                             Append(reg.trace, name)),
                         name, deps, ord, stack)

\* enable_plugin without its test for a name already in the list
EnableAgain(reg, name, ord, stack) ==
    IF name \notin DOMAIN reg.plugins THEN Ret(reg, "NotFound")
    ELSE IF name \in stack THEN Ret(reg, "StackOverflow")
    ELSE LET deps == InOrder(ord, DOMAIN reg.plugins[name].manifest.dependencies)
             r == enable_deps(reg, name, deps, ord, stack \cup {name})
         IN  IF r.res # "Ok" THEN r
             ELSE Reg(SetState(r.plugins, name, "Enabled"),
                      Append(r.enabled, name), "Ok", Append(r.trace, name))

\* a failed dependency check that marks the plugin with the Error state
EnableMarkingError(reg, name, ord, stack) ==
    IF name \notin DOMAIN reg.plugins THEN Ret(reg, "NotFound")
    ELSE IF Contains(reg.enabled, name) THEN Ret(reg, "Ok")
    ELSE IF name \in stack THEN Ret(reg, "StackOverflow")
    ELSE LET deps == InOrder(ord, DOMAIN reg.plugins[name].manifest.dependencies)
             r == enable_deps(reg, name, deps, ord, stack \cup {name})
         IN  IF r.res # "Ok" THEN [r EXCEPT !.plugins = SetState(@, name, "Error")]
             ELSE Reg(SetState(r.plugins, name, "Enabled"),
                      Append(r.enabled, name), "Ok", Append(r.trace, name))

\* a failed call that gives back the registry it was called with
EnableRollingBack(reg, name, ord, stack) ==
    IF name \notin DOMAIN reg.plugins THEN Ret(reg, "NotFound")
    ELSE IF Contains(reg.enabled, name) THEN Ret(reg, "Ok")
    ELSE IF name \in stack THEN Ret(reg, "StackOverflow")
    ELSE LET deps == InOrder(ord, DOMAIN reg.plugins[name].manifest.dependencies)
             r == enable_deps(reg, name, deps, ord, stack \cup {name})
         IN  IF r.res # "Ok" THEN [reg EXCEPT !.res = r.res, !.trace = r.trace]
             ELSE Reg(SetState(r.plugins, name, "Enabled"),
                      Append(r.enabled, name), "Ok", Append(r.trace, name))

\* PluginManager::enable_plugin.  stack holds the names whose call is in
\* progress: the code keeps no such set, and a call that re-enters a name of
\* the stack repeats itself without end.
enable_plugin(reg, name, ord, stack) ==
    IF name \notin DOMAIN reg.plugins THEN Ret(reg, "NotFound")
    ELSE IF Contains(reg.enabled, name) THEN Ret(reg, "Ok")
    ELSE IF name \in stack THEN Ret(reg, "StackOverflow")
    ELSE LET deps == InOrder(ord, DOMAIN reg.plugins[name].manifest.dependencies)
             r == enable_deps(reg, name, deps, ord, stack \cup {name})
         IN  IF r.res # "Ok" THEN r
             ELSE Reg(SetState(r.plugins, name, "Enabled"),
                      Append(r.enabled, name), "Ok", Append(r.trace, name))

RECURSIVE disable_plugin(_, _, _, _)
RECURSIVE disable_dependents(_, _, _, _, _)

\* the loop over dependent_plugins
disable_dependents(reg, name, dependents, ord, stack) ==
    IF dependents = <<>> THEN Ret(reg, "Ok")
    ELSE LET r == disable_plugin(reg, Head(dependents), ord, stack)
         IN  IF r.res # "Ok" THEN r
             ELSE disable_dependents(r, name, Tail(dependents), ord, stack)

\* a disable_plugin whose retain also drops what was enabled after name
DisableDroppingLater(reg, name, ord, stack) ==
    IF name \notin DOMAIN reg.plugins THEN Ret(reg, "NotFound")
    ELSE IF ~Contains(reg.enabled, name) THEN Ret(reg, "Ok")
    ELSE IF name \in stack THEN Ret(reg, "StackOverflow")
    ELSE LET dependent_plugins ==
                 InOrder(ord, {p \in DOMAIN reg.plugins :
                                 name \in DOMAIN reg.plugins[p].manifest.dependencies})
             r == disable_dependents(reg, name, dependent_plugins, ord,
                                     stack \cup {name})
         IN  IF r.res # "Ok" THEN r
             ELSE Reg(SetState(r.plugins, name, "Installed"),
                      SelectSeq(r.enabled,
                                LAMBDA n : \E i, j \in 1..Len(r.enabled) :
                                              i < j /\ r.enabled[i] = n
                                                    /\ r.enabled[j] = name),
                      "Ok", Append(r.trace, name))

\* PluginManager::disable_plugin
disable_plugin(reg, name, ord, stack) ==
    IF name \notin DOMAIN reg.plugins THEN Ret(reg, "NotFound")
    ELSE IF ~Contains(reg.enabled, name) THEN Ret(reg, "Ok")
    ELSE IF name \in stack THEN Ret(reg, "StackOverflow")
    ELSE LET dependent_plugins ==
                 InOrder(ord, {p \in DOMAIN reg.plugins :
                                 name \in DOMAIN reg.plugins[p].manifest.dependencies})
             r == disable_dependents(reg, name, dependent_plugins, ord,
                                     stack \cup {name})
         IN  IF r.res # "Ok" THEN r
             ELSE Reg(SetState(r.plugins, name, "Installed"),
                      SelectSeq(r.enabled, LAMBDA n : n # name), "Ok",
                      Append(r.trace, name))

RECURSIVE InsertAll(_, _)
\* the loop of initialize: each discovered plugin replaces the entry of its name
InsertAll(map, discovered) ==
    IF discovered = <<>> THEN map
    ELSE InsertAll(MapInsert(map, Head(discovered).manifest.name, Head(discovered)),
                   Tail(discovered))

\* PluginLoader::discover_plugins: the plugin directories of each search
\* directory in turn; dirOrd is the order read_dir yields them in
discover_plugins(disk, dirOrd) ==
    LET found(root) == SelectSeq(dirOrd, LAMBDA d : d[1] = root /\ d \in DOMAIN disk)
        all == found(LoaderDirs[1]) \o found(LoaderDirs[2])
    IN  [i \in 1..Len(all) |-> PluginNew(disk[all[i]], all[i])]

\* PluginManager::initialize
initialize(map, disk, dirOrd) == InsertAll(map, discover_plugins(disk, dirOrd))

\* PluginManager::install_plugin: [plugins, fs, res]
install_plugin(map, disk, source_dir) ==
    IF source_dir \notin DOMAIN disk
    THEN [plugins |-> map, fs |-> disk, res |-> "NotFound"]
    ELSE LET manifest == disk[source_dir]
             target_dir == Path("cfg", manifest.name)
             \* fs_extra::dir::copy puts the tree under the source's own base name
             copied == Path("cfg", source_dir[2])
         IN  IF target_dir \in DOMAIN disk
             THEN [plugins |-> map, fs |-> disk, res |-> "AlreadyInstalled"]
             ELSE IF copied \in DOMAIN disk
             THEN [plugins |-> map, fs |-> disk, res |-> "CopyFailed"]
             ELSE [plugins |-> MapInsert(map, manifest.name,
                                         PluginNew(manifest, target_dir)),
                   fs |-> MapInsert(disk, copied, manifest),
                   res |-> "Ok"]

\* PluginManager::uninstall_plugin: [plugins, enabled, res, trace, fs]
uninstall_plugin(reg, disk, name, ord) ==
    IF name \notin DOMAIN reg.plugins
    THEN [plugins |-> reg.plugins, enabled |-> reg.enabled, res |-> "NotFound",
          trace |-> reg.trace, fs |-> disk]
    ELSE LET r == IF Contains(reg.enabled, name)
                  THEN disable_plugin(reg, name, ord, {})
                  ELSE Ret(reg, "Ok")
             dir == reg.plugins[name].directory
         IN  IF r.res # "Ok"
             THEN [plugins |-> r.plugins, enabled |-> r.enabled, res |-> r.res,
                   trace |-> r.trace, fs |-> disk]
             ELSE [plugins |-> MapRemove(r.plugins, name), enabled |-> r.enabled,
                   res |-> "Ok", trace |-> r.trace,
                   fs |-> IF dir \in DOMAIN disk THEN MapRemove(disk, dir) ELSE disk]

(***************************************************************************)
(* Hook dispatch.                                                          *)
(***************************************************************************)
DeclaresHook(plugin, hook_name) ==
    \E i \in 1..Len(plugin.manifest.hooks) : plugin.manifest.hooks[i].name = hook_name

\* hooks.iter().find(|h| h.name == hook_name).map(|h| h.priority).unwrap_or(0)
HookPriority(plugin, hook_name) ==
    IF DeclaresHook(plugin, hook_name)
    THEN LET i == CHOOSE k \in 1..Len(plugin.manifest.hooks) :
                      /\ plugin.manifest.hooks[k].name = hook_name
                      /\ \A j \in 1..(k - 1) : plugin.manifest.hooks[j].name # hook_name
         IN  plugin.manifest.hooks[i].priority
    ELSE 0

\* PluginManager::get_enabled_plugins: the enabled names that are registered
get_enabled_plugins(map, enabled) == SelectSeq(enabled, LAMBDA n : n \in DOMAIN map)

RemoveAt(s, i) == [k \in 1..(Len(s) - 1) |-> IF k < i THEN s[k] ELSE s[k + 1]]

RECURSIVE SortByKey(_, _)
\* slice::sort_by on the key (a function of the elements): stable, ascending
SortByKey(s, key) ==
    IF s = <<>> THEN <<>>
    ELSE LET i == CHOOSE k \in 1..Len(s) :
                      /\ \A j \in 1..Len(s) : key[s[k]] <= key[s[j]]
                      /\ \A j \in 1..(k - 1) : key[s[j]] > key[s[k]]
         IN  <<s[i]>> \o SortByKey(RemoveAt(s, i), key)

\* the plugins execute_hook invokes, in the order it invokes them
HookOrder(map, enabled, hook_name) ==
    SortByKey(SelectSeq(get_enabled_plugins(map, enabled),
                        LAMBDA n : DeclaresHook(map[n], hook_name)),
              [n \in DOMAIN map |-> HookPriority(map[n], hook_name)])

\* Plugin::execute_hook: "ok" when the script exists and exits with success;
\* ran is what the script executor reports for a script that exists
ScriptResult(plugin, disk, ran) ==
    IF plugin.directory \notin DOMAIN disk THEN "missing" ELSE ran

(***************************************************************************)
(* The manifests on disk.  ./plugins holds A, B and C (version 1.2.0);     *)
(* src/x holds another plugin that calls itself A (version 2.0.0, no       *)
(* dependencies) and src/e holds no manifest.  Every declared dependency   *)
(* asks for "^1.0.0".                                                      *)
(***************************************************************************)
HookNames == {"h", "g"}

HookChoices ==
    {<<Hook("g", 0)>>, <<Hook("h", MaxPriority), Hook("h", 0)>>}
        \cup {<<Hook("h", p)>> : p \in 0..MaxPriority}

Edges(g) == Cardinality({e \in Names \X Names : e[2] \in g[e[1]]})

Graphs == {g \in [Names -> SUBSET Names] : Edges(g) <= MaxEdges}

NoDeps == [n \in Names |-> {}]

NoHooks == [n \in Names |-> <<>>]

SourceDirs == {Path("src", "x"), Path("src", "e")}

\* the commands the manifests of ./plugins declare; that of src/x declares none
CommandNames == {"run", "stop"}

DeclaredCommands == [n \in Names |-> IF n = "C" THEN <<>> ELSE <<Command("run")>>]

Disk(g, h) ==
    LET man(n) == [Manifest(n, V120, g[n], h[n]) EXCEPT !.commands = DeclaredCommands[n]]
    IN  [d \in {Path("loc", n) : n \in Names} \cup {Path("src", "x")} |->
            IF d[1] = "loc" THEN man(d[2])
            ELSE Manifest("A", V200, {}, <<Hook("h", 0)>>)]

\* The record of a call: what was called with which argument, what it returned,
\* the names it worked on in order (for execute_hook: the plugins invoked), and
\* for execute_hook what the script executor did (ran) and the keys of the
\* returned map (results).
Call(op, arg, res, trace, results) ==
    [op |-> op, arg |-> arg, res |-> res, trace |-> trace, results |-> results,
     ran |-> EmptyMap]

\* Option::None for a profile name
None == "None"

\* a Config with no variables and no profiles; default_profile() is "default"
EmptyConfig ==
    [variables |-> EmptyMap, profiles |-> EmptyMap, default_profile |-> "default"]

\* no resolve_variables call is in progress
IdleResolver ==
    [pc |-> "idle", input |-> <<>>, profile_name |-> None, result |-> <<>>,
     visited |-> {}, var_name |-> <<>>, replacement |-> <<>>, broke |-> FALSE]

ResolverIdle ==
    /\ config = EmptyConfig
    /\ rs = IdleResolver

\* Option<T> where the value is a record: Some(x) and None
Some(x) == <<x>>
Absent == <<>>
is_none(o) == o = Absent

\* no Config::from_file call is in progress
IdleLoad ==
    [pc |-> "idle", path |-> [dir |-> "", name |-> ""], pending |-> <<>>,
     processed |-> {}, res |-> [kind |-> None, path |-> [dir |-> "", name |-> ""]],
     returned |-> Absent, merged |-> <<>>]

LoaderIdle == load = IdleLoad

\* ThemeManager::new and no caller
NoLock == [writer |-> None, readers |-> {}]

ThemesIdle ==
    /\ theme_cache = EmptyMap
    /\ active_theme = Absent
    /\ lock = NoLock
    /\ th = EmptyMap

\* PluginManager::new
InitRegistry(catalogs) ==
    /\ plugins = EmptyMap
    /\ enabled_plugins = <<>>
    /\ last = Call("new", "", "Ok", <<>>, {})
    /\ \E c \in catalogs : fs = Disk(c[1], c[2])

\* a stack overflow ends the process
Alive == last.res # "StackOverflow"

\* the iteration orders that can make a difference to a call: with at most one
\* dependency per plugin and at most one dependent per name every order of the
\* names gives the same iterations
Orders(map) ==
    IF /\ \A p \in DOMAIN map : Cardinality(DOMAIN map[p].manifest.dependencies) <= 1
       /\ \A n \in Names :
             Cardinality({p \in DOMAIN map : n \in DOMAIN map[p].manifest.dependencies}) <= 1
    THEN {<<"A", "B", "C">>}
    ELSE Perms(Names)

\* the orders in which read_dir can yield the plugin directories
DirOrders(disk) ==
    LET of(root) == Perms({d \in DOMAIN disk : d[1] = root})
    IN  {a \o b : a \in of(LoaderDirs[1]), b \in of(LoaderDirs[2])}

Initialize ==
    /\ Alive
    /\ \E dirOrd \in DirOrders(fs) : plugins' = initialize(plugins, fs, dirOrd)
    /\ last' = Call("initialize", "", "Ok", <<>>, {})
    /\ UNCHANGED <<enabled_plugins, fs, config, rs, loader_vars, theme_vars>>

Install(source_dir) ==
    /\ Alive
    /\ LET r == install_plugin(plugins, fs, source_dir)
       IN  /\ plugins' = r.plugins
           /\ fs' = r.fs
           /\ last' = Call("install", source_dir[2], r.res, <<>>, {})
    /\ UNCHANGED <<enabled_plugins, config, rs, loader_vars, theme_vars>>

\* what a call of the registry leaves behind; nothing of the registry outlives
\* a stack overflow, so the fields keep their values
Returned(op, name, r) ==
    IF r.res = "StackOverflow"
    THEN /\ UNCHANGED <<plugins, enabled_plugins>>
         /\ last' = Call(op, name, r.res, <<>>, {})
    ELSE /\ plugins' = r.plugins
         /\ enabled_plugins' = r.enabled
         /\ last' = Call(op, name, r.res, r.trace, {})

Enable(name) ==
    /\ Alive
    /\ \E ord \in Orders(plugins) :
          Returned("enable", name,
                   enable_plugin(Reg(plugins, enabled_plugins, "Ok", <<>>), name, ord, {}))
    /\ UNCHANGED <<fs, config, rs, loader_vars, theme_vars>>

Disable(name) ==
    /\ Alive
    /\ \E ord \in Orders(plugins) :
          Returned("disable", name,
                   disable_plugin(Reg(plugins, enabled_plugins, "Ok", <<>>), name, ord, {}))
    /\ UNCHANGED <<fs, config, rs, loader_vars, theme_vars>>

Uninstall(name) ==
    /\ Alive
    /\ \E ord \in Orders(plugins) :
          LET r == uninstall_plugin(Reg(plugins, enabled_plugins, "Ok", <<>>), fs, name, ord)
          IN  /\ Returned("uninstall", name, r)
              /\ fs' = IF r.res = "StackOverflow" THEN fs ELSE r.fs
    /\ UNCHANGED <<config, rs, loader_vars, theme_vars>>

\* what running a hook script can come to: "failed" stands for every error of
\* Plugin::execute_hook in a directory that exists (no script file, the spawn
\* fails, a non-zero exit status)
ScriptOutcomes == {"ok", "failed"}

\* the keys of the map execute_hook returns: a failed plugin is only logged
HookResults(map, disk, order, ran) ==
    {n \in Range(order) : ScriptResult(map[n], disk, ran[n]) = "ok"}

\* PluginManager::execute_hook: ran is what the script executor does with each
\* invoked plugin's script
ExecuteHook(hook_name) ==
    /\ Alive
    /\ LET order == HookOrder(plugins, enabled_plugins, hook_name)
       IN  \E ran \in [Range(order) -> ScriptOutcomes] :
              last' = [Call("execute_hook", hook_name, "Ok", order,
                            HookResults(plugins, fs, order, ran))
                       EXCEPT !.ran = [n \in Range(order) |->
                                          ScriptResult(plugins[n], fs, ran[n])]]
    /\ UNCHANGED <<plugins, enabled_plugins, fs, config, rs, loader_vars, theme_vars>>

Next ==
    \/ Initialize
    \/ \E source_dir \in SourceDirs : Install(source_dir)
    \/ \E name \in Names : Enable(name)
    \/ \E name \in Names : Disable(name)
    \/ \E name \in Names : Uninstall(name)
    \/ \E hook_name \in HookNames : ExecuteHook(hook_name)

Init ==
    /\ InitRegistry({<<g, NoHooks>> : g \in Graphs})
    /\ ResolverIdle /\ LoaderIdle /\ ThemesIdle

Spec == Init /\ [][Next]_vars

\* the manifests declare no dependencies and A and B declare any of the hook
\* lists; C declares hook "h" with priority 0
HookProfiles == {h \in [Names -> HookChoices] : h["C"] = <<Hook("h", 0)>>}

InitHooks ==
    /\ InitRegistry({<<NoDeps, h>> : h \in HookProfiles})
    /\ ResolverIdle /\ LoaderIdle /\ ThemesIdle

SpecHooks == InitHooks /\ [][Next]_vars

(***************************************************************************)
(* Config::resolve_variables.  A string is a sequence of characters; a     *)
(* variable name is a string.  The call is followed one iteration of its   *)
(* while loop at a time.                                                   *)
(***************************************************************************)
\* the characters of the model that [a-zA-Z0-9_.-] accepts
NameChars == {"x", "y", "1", "2"}

\* "${name}" for a one-character name
Placeholder(c) == <<"$", "{", c, "}">>

\* the last position of the longest run of name characters that starts at i,
\* i - 1 when there is none
NameRun(s, i) ==
    LET stops == {j \in i..Len(s) : s[j] \notin NameChars}
    IN  IF stops = {} THEN Len(s)
        ELSE (CHOOSE j \in stops : \A k \in stops : j <= k) - 1

\* VAR_REGEX matches at position i: "${", one or more name characters, "}"
MatchAt(s, i) ==
    /\ i + 1 <= Len(s)
    /\ s[i] = "$"
    /\ s[i + 1] = "{"
    /\ LET e == NameRun(s, i + 2)
       IN  e >= i + 2 /\ e + 1 <= Len(s) /\ s[e + 1] = "}"

\* VAR_REGEX.captures(s).is_some()
HasMatch(s) == \E i \in 1..Len(s) : MatchAt(s, i)

\* VAR_REGEX.captures(s): the leftmost match and its capture group
Captures(s) ==
    LET matches == {k \in 1..Len(s) : MatchAt(s, k)}
        i == CHOOSE k \in matches : \A j \in matches : k <= j
        e == NameRun(s, i + 2)
    IN  [full_match |-> SubSeq(s, i, e + 1), var_name |-> SubSeq(s, i + 2, e)]

\* pat occurs in s
Occurs(s, pat) ==
    \E i \in 1..(Len(s) - Len(pat) + 1) : SubSeq(s, i, i + Len(pat) - 1) = pat

RECURSIVE replace(_, _, _)
\* str::replace: every non-overlapping occurrence of from, left to right
replace(s, from, to) ==
    IF Len(s) < Len(from) THEN s
    ELSE IF SubSeq(s, 1, Len(from)) = from
         THEN to \o replace(SubSeq(s, Len(from) + 1, Len(s)), from, to)
         ELSE <<Head(s)>> \o replace(Tail(s), from, to)

\* a missing profile taken for a profile without variables
GetProfileOrEmpty(cfg, profile_name) ==
    LET name == IF profile_name = None THEN cfg.default_profile ELSE profile_name
    IN  IF name \in DOMAIN cfg.profiles
        THEN [ok |-> TRUE, profile |-> cfg.profiles[name]]
        ELSE [ok |-> TRUE, profile |-> [variables |-> EmptyMap]]

\* Config::get_active_profile
get_active_profile(cfg, profile_name) ==
    LET name == IF profile_name = None THEN cfg.default_profile ELSE profile_name
    IN  IF name \in DOMAIN cfg.profiles
        THEN [ok |-> TRUE, profile |-> cfg.profiles[name]]
        ELSE [ok |-> FALSE]

\* a name defined nowhere keeps its placeholder
LookupKeepingUnknown(profile, variables, var_name) ==
    IF var_name \in DOMAIN profile.variables THEN profile.variables[var_name]
    ELSE IF var_name \in DOMAIN variables THEN variables[var_name]
    ELSE <<"$", "{">> \o var_name \o <<"}">>

LookupGlobalFirst(profile, variables, var_name) ==
    IF var_name \in DOMAIN variables THEN variables[var_name]
    ELSE IF var_name \in DOMAIN profile.variables THEN profile.variables[var_name]
    ELSE <<>>

\* the replacement: the profile's variables first, then the global ones, else ""
Lookup(profile, variables, var_name) ==
    IF var_name \in DOMAIN profile.variables THEN profile.variables[var_name]
    ELSE IF var_name \in DOMAIN variables THEN variables[var_name]
    ELSE <<>>

NeverVisited(visited, var_name) == FALSE

\* visited.contains(var_name)
AlreadyVisited(visited, var_name) == var_name \in visited

\* the call starts (rs holds its arguments): result is the input, and without
\* the profile the call returns it
Resolve ==
    /\ rs.pc = "call"
    /\ rs' = [rs EXCEPT
                !.pc = IF get_active_profile(config, rs.profile_name).ok
                       THEN "loop" ELSE "done",
                !.result = rs.input]
    /\ UNCHANGED <<plugins, enabled_plugins, fs, last, config, loader_vars, theme_vars>>

\* Iteration, returning the string with a terminator appended
IterationTerminating(cfg, r) ==
    IF ~HasMatch(r.result)
    THEN [r EXCEPT !.pc = "done", !.result = r.result \o <<"1">>]
    ELSE LET c == Captures(r.result)
             profile == get_active_profile(cfg, r.profile_name).profile
             replacement == Lookup(profile, cfg.variables, c.var_name)
         IN  IF AlreadyVisited(r.visited, c.var_name)
             THEN [r EXCEPT !.pc = "done", !.broke = TRUE]
             ELSE [r EXCEPT !.visited = r.visited \cup {c.var_name},
                            !.var_name = c.var_name,
                            !.replacement = replacement,
                            !.result = replace(r.result, c.full_match, replacement)]

\* one evaluation of the while condition and, when it holds, of the body: the
\* position r of the call after it
Iteration(cfg, r) ==
    IF ~HasMatch(r.result)
    THEN [r EXCEPT !.pc = "done"]
    ELSE LET c == Captures(r.result)
             profile == get_active_profile(cfg, r.profile_name).profile
             replacement == Lookup(profile, cfg.variables, c.var_name)
         IN  IF AlreadyVisited(r.visited, c.var_name)
             THEN [r EXCEPT !.pc = "done", !.broke = TRUE]
             ELSE [r EXCEPT !.visited = r.visited \cup {c.var_name},
                            !.var_name = c.var_name,
                            !.replacement = replacement,
                            !.result = replace(r.result, c.full_match, replacement)]

ResolveIteration ==
    /\ rs.pc = "loop"
    /\ rs' = Iteration(config, rs)
    /\ UNCHANGED <<plugins, enabled_plugins, fs, last, config, loader_vars, theme_vars>>

\* the position of a call that has just been entered: lines 292-299
Entered(cfg, input, profile_name) ==
    [IdleResolver EXCEPT
        !.pc = IF get_active_profile(cfg, profile_name).ok THEN "loop" ELSE "done",
        !.input = input, !.profile_name = profile_name, !.result = input]

RECURSIVE Loop(_, _)
\* the while loop run to its end
Loop(cfg, r) == IF r.pc = "done" THEN r ELSE Loop(cfg, Iteration(cfg, r))

\* Config::resolve_variables as a function: the string it returns
resolve_variables(cfg, input, profile_name) ==
    Loop(cfg, Entered(cfg, input, profile_name)).result

(***************************************************************************)
(* The configurations and inputs of the resolver.  The variables are x and *)
(* y; a global value is "1" or a placeholder, a profile value is "2" or a  *)
(* placeholder; the configuration has the profile "default" or none.  An   *)
(* input is made of at most MaxInputLen pieces.                            *)
(***************************************************************************)
VarNames == {<<"x">>, <<"y">>}

GlobalValues == {<<"1">>, Placeholder("x"), Placeholder("y")}

ProfileValues == {<<"2">>, Placeholder("x"), Placeholder("y")}

VarMaps(values) == UNION {[D -> values] : D \in SUBSET VarNames}

Pieces == {Placeholder("x"), Placeholder("y"), <<"1">>, <<"$", "{">>, <<"}">>}

RECURSIVE Concat(_)
Concat(ps) == IF ps = <<>> THEN <<>> ELSE Head(ps) \o Concat(Tail(ps))

Inputs == {Concat(ps) : ps \in UNION {[1..n -> Pieces] : n \in 0..MaxInputLen}}

ProfileNames == {None, "work"}

Configs ==
    {[EmptyConfig EXCEPT !.variables = g] : g \in VarMaps(GlobalValues)}
    \cup {[EmptyConfig EXCEPT !.variables = g,
                              !.profiles = [n \in {"default"} |-> [variables |-> p]]] :
             g \in VarMaps(GlobalValues), p \in VarMaps(ProfileValues)}

InitResolve ==
    /\ plugins = EmptyMap
    /\ enabled_plugins = <<>>
    /\ fs = EmptyMap
    /\ last = Call("new", "", "Ok", <<>>, {})
    /\ LoaderIdle /\ ThemesIdle
    /\ config \in Configs
    /\ \E input \in Inputs, profile_name \in ProfileNames :
          rs = [IdleResolver EXCEPT !.pc = "call", !.input = input,
                                    !.profile_name = profile_name]

NextResolve == Resolve \/ ResolveIteration

SpecResolve == InitResolve /\ [][NextResolve]_vars

\* the configurations with a profile that defines at most x
ConfigsOfX ==
    {c \in Configs : /\ "default" \in DOMAIN c.profiles
                     /\ DOMAIN c.profiles["default"].variables \subseteq {<<"x">>}}

InitResolveOfX == InitResolve /\ config \in ConfigsOfX

\* the loop is straight-line code of one thread: it keeps running
SpecResolveFair ==
    InitResolveOfX /\ [][NextResolve]_vars /\ WF_vars(ResolveIteration)

(***************************************************************************)
(* Dependency relations of the registered manifests.                       *)
(***************************************************************************)
DepsOf(map, n) == IF n \in DOMAIN map THEN DOMAIN map[n].manifest.dependencies ELSE {}

RECURSIVE DepClosure(_, _)
\* the names reachable from S along declared dependencies
DepClosure(map, S) ==
    LET T == S \cup UNION {DepsOf(map, n) : n \in S}
    IN  IF T = S THEN S ELSE DepClosure(map, T)

\* the transitive dependencies of name
TransDeps(map, name) == DepClosure(map, DepsOf(map, name))

\* the registered plugins that transitively depend on name
TransDependents(map, name) == {p \in DOMAIN map : name \in TransDeps(map, p)}

InList(name) == Contains(enabled_plugins, name)

Before(s, a, b) ==
    \E i, j \in 1..Len(s) : i < j /\ s[i] = a /\ s[j] = b

(***************************************************************************)
(* C1.  Registry invariant: every name in enabled_plugins is a key of      *)
(* plugins whose state is Enabled, and no name appears twice, after any    *)
(* sequence of initialize, install, enable, disable and uninstall.         *)
(* The code breaks it: initialize and install replace a registered entry   *)
(* by a fresh Installed one and leave enabled_plugins alone.               *)
(***************************************************************************)
C1_RegistryInvariant ==
    /\ \A i \in 1..Len(enabled_plugins) :
          /\ enabled_plugins[i] \in DOMAIN plugins
          /\ plugins[enabled_plugins[i]].state = "Enabled"
    /\ NoDup(enabled_plugins)

(***************************************************************************)
(* C2.  Dependencies first: after a successful enable(name), name is in    *)
(* enabled_plugins and so is every transitive dependency of name, each at  *)
(* an earlier position than every plugin of that set that depends on it.   *)
(***************************************************************************)
DepsFirst(name) ==
    LET closure == TransDeps(plugins, name) \cup {name}
    IN  /\ \A d \in closure : InList(d)
        /\ \A p \in closure : \A d \in DepsOf(plugins, p) :
              Before(enabled_plugins, d, p)

C2_DependenciesFirst ==
    (last.op = "enable" /\ last.res = "Ok") => DepsFirst(last.arg)

\* C2 holds of every enable call made on a consistent registry (ConsistentRegistry
\* is defined with C5)
C2_FromConsistentRegistry ==
    [][(/\ last'.op = "enable" /\ last'.res = "Ok"
        /\ C1_RegistryInvariant
        /\ \A p \in Range(enabled_plugins) :
              DepsOf(plugins, p) \subseteq Range(enabled_plugins))
           => LET closure == TransDeps(plugins, last'.arg) \cup {last'.arg}
              IN  /\ \A d \in closure : Contains(enabled_plugins', d)
                  /\ \A p \in closure : \A d \in DepsOf(plugins, p) :
                        Before(enabled_plugins', d, p)]_vars

\* C2, the scenario of the spec alone: B depends on A, A on nothing, and
\* enable(B) from an empty list enables A and then B
C2_ScenarioHolds ==
    [][(/\ enabled_plugins = <<>>
        /\ last'.op = "enable" /\ last'.arg = "B" /\ last'.res = "Ok"
        /\ DepsOf(plugins, "B") = {"A"} /\ DepsOf(plugins, "A") = {})
           => enabled_plugins' = <<"A", "B">>]_vars

(***************************************************************************)
(* C3.  enable(name) terminates for every finite registry: on a dependency *)
(* cycle it fails with DependencyCycle instead of recursing without bound. *)
(* The code keeps no set of the names in progress and recurses until the   *)
(* stack overflows.                                                        *)
(***************************************************************************)
EnableResults ==
    {"Ok", "NotFound", "DependencyMissing", "DependencyVersionMismatch",
     "DependencyCycle"}

C3_EnableTerminates == last.op = "enable" => last.res \in EnableResults

(***************************************************************************)
(* C4.  Enabling a registered plugin one of whose declared dependencies is *)
(* not registered fails with DependencyMissing and leaves the plugin's own *)
(* state unchanged: still Installed, not in enabled_plugins.               *)
(***************************************************************************)
HasMissingDependency(map, name) ==
    name \in DOMAIN map /\ \E d \in DepsOf(map, name) : d \notin DOMAIN map

\* an enable step on a registered plugin that is Installed, outside
\* enabled_plugins and has an unregistered dependency
EnableWithMissingDep ==
    /\ last'.op = "enable"
    /\ HasMissingDependency(plugins, last'.arg)
    /\ plugins[last'.arg].state = "Installed"
    /\ ~InList(last'.arg)

StillInstalled ==
    /\ plugins'[last'.arg].state = "Installed"
    /\ ~Contains(enabled_plugins', last'.arg)

DisableOfEnabled == last'.op = "disable" /\ InList(last'.arg)

DependentsDisabledFirst ==
    LET name == last'.arg
        affected == TransDependents(plugins, name) \cup {name}
    IN  /\ \A p \in affected :
              /\ ~Contains(enabled_plugins', p)
              /\ plugins'[p].state = "Installed"
        /\ \A p \in affected \ {name} :
              InList(p) => Before(last'.trace, p, name)
        /\ last'.trace[Len(last'.trace)] = name

C5_DisableCascades ==
    [][(DisableOfEnabled /\ last'.res = "Ok") => DependentsDisabledFirst]_vars

\* The registry as the spec's invariants describe it: C1's invariant, and every
\* dependency of an enabled plugin enabled too.
ConsistentRegistry ==
    /\ C1_RegistryInvariant
    /\ \A p \in Range(enabled_plugins) :
          DepsOf(plugins, p) \subseteq Range(enabled_plugins)

\* C5 holds of every disable call made on a consistent registry
C5_FromConsistentRegistry ==
    [][(DisableOfEnabled /\ ConsistentRegistry)
          => (last'.res = "Ok" /\ DependentsDisabledFirst)]_vars

(***************************************************************************)
(* C6.  execute_hook invokes the enabled plugins that declare the hook in  *)
(* an order that is non-decreasing in the hook's declared priority; a      *)
(* plugin that is not enabled or does not declare the hook is never        *)
(* invoked.  Enabled is the plugin's state, as in the spec's "among        *)
(* Enabled plugins"; execute_hook goes by enabled_plugins, whose names     *)
(* initialize and install can leave with state Installed (C1).             *)
(***************************************************************************)
IsEnabled(n) == n \in DOMAIN plugins /\ plugins[n].state = "Enabled"

\* the trace of a dispatch is in non-decreasing order of priority
InPriorityOrder ==
    \A i, j \in 1..Len(last.trace) :
        i < j => HookPriority(plugins[last.trace[i]], last.arg)
                    <= HookPriority(plugins[last.trace[j]], last.arg)

C6_HookOrder ==
    last.op = "execute_hook" =>
        /\ InPriorityOrder
        /\ NoDup(last.trace)
        /\ Range(last.trace) =
              {n \in DOMAIN plugins : IsEnabled(n) /\ DeclaresHook(plugins[n], last.arg)}

\* C6 with "enabled" read as "listed in enabled_plugins": this the code does
C6_HookOrderOfListed ==
    last.op = "execute_hook" =>
        /\ InPriorityOrder
        /\ NoDup(last.trace)
        /\ Range(last.trace) =
              {n \in DOMAIN plugins : InList(n) /\ DeclaresHook(plugins[n], last.arg)}

\* a dispatch that had to reorder: a plugin enabled later runs earlier, and a
\* listed plugin that does not declare the hook is left out
C6_Reordered ==
    /\ last.op = "execute_hook"
    /\ \E i, j \in 1..Len(last.trace) :
          i < j /\ Before(enabled_plugins, last.trace[j], last.trace[i])
    /\ \E n \in DOMAIN plugins : InList(n) /\ ~DeclaresHook(plugins[n], last.arg)

(***************************************************************************)
(* C7.  Hook dispatch degrades gracefully: execute_hook always returns     *)
(* success; a plugin whose script is missing or fails is absent from the   *)
(* result map and keeps no later plugin from being invoked; the keys of    *)
(* the map are exactly the enabled plugins that declare the hook and whose *)
(* script succeeded.  Enabled is read as in C6.                            *)
(***************************************************************************)
C7_HookDegradesGracefully ==
    last.op = "execute_hook" =>
        /\ last.res = "Ok"
        /\ \A n \in DOMAIN plugins :
              (IsEnabled(n) /\ DeclaresHook(plugins[n], last.arg))
                  => n \in DOMAIN last.ran
        /\ last.results =
              {n \in DOMAIN plugins : /\ IsEnabled(n)
                                      /\ DeclaresHook(plugins[n], last.arg)
                                      /\ n \in DOMAIN last.ran
                                      /\ last.ran[n] = "ok"}

\* C7 with "enabled" read as "listed in enabled_plugins": this the code does
C7_DegradesGracefullyOfListed ==
    last.op = "execute_hook" =>
        /\ last.res = "Ok"
        /\ DOMAIN last.ran =
              {n \in DOMAIN plugins : InList(n) /\ DeclaresHook(plugins[n], last.arg)}
        /\ last.results = {n \in DOMAIN last.ran : last.ran[n] = "ok"}

\* a dispatch in which the first plugin failed and a later one succeeded
C7_FailedThenSucceeded ==
    /\ last.op = "execute_hook"
    /\ Len(last.trace) >= 2
    /\ last.ran[last.trace[1]] # "ok"
    /\ last.trace[2] \in last.results

(***************************************************************************)
(* C8.  uninstall(name) of a registered plugin disables it first if it is  *)
(* enabled, cascading to its dependents, deletes its directory on disk and *)
(* removes it from the registry: after a successful call name is neither a *)
(* key of plugins nor in enabled_plugins; uninstall of an unknown name     *)
(* fails with NotFound.                                                    *)
(***************************************************************************)
UninstallOf(known) ==
    /\ last'.op = "uninstall"
    /\ (last'.arg \in DOMAIN plugins) = known

\* name and its registered directory are gone
Removed(name) ==
    /\ name \notin DOMAIN plugins'
    /\ ~Contains(enabled_plugins', name)
    /\ plugins[name].directory \notin DOMAIN fs'

\* no plugin that transitively depended on an enabled name is left enabled
DependentsDisabled(name) ==
    InList(name) =>
        \A p \in TransDependents(plugins, name) : ~Contains(enabled_plugins', p)

\* nothing is left in the storage roots of what was installed for name
FilesDeleted(name) ==
    \A d \in DOMAIN fs' :
        d[1] \in Range(LoaderDirs) => fs'[d] # plugins[name].manifest

C8_Uninstall ==
    [][/\ UninstallOf(FALSE) =>
            /\ last'.res = "NotFound"
            /\ UNCHANGED <<plugins, enabled_plugins, fs>>
       /\ (UninstallOf(TRUE) /\ last'.res = "Ok") =>
            /\ Removed(last'.arg)
            /\ DependentsDisabled(last'.arg)]_vars

\* C8 without the cascade: what uninstall does whenever it returns
C8_RemovesWhenItReturns ==
    [][/\ UninstallOf(FALSE) =>
            /\ last'.res = "NotFound"
            /\ UNCHANGED <<plugins, enabled_plugins, fs>>
       /\ UninstallOf(TRUE) =>
            /\ last'.res \in {"Ok", "StackOverflow"}
            /\ last'.res = "Ok" => Removed(last'.arg)]_vars

\* C8 read on the files: a successful uninstall leaves nothing of the plugin in
\* the storage roots.  install_plugin copies the source under its own base name
\* and registers the directory named after the manifest, so uninstall finds no
\* directory to delete and the copy stays.
C8_DeletesFiles ==
    [][(UninstallOf(TRUE) /\ last'.res = "Ok") => FilesDeleted(last'.arg)]_vars

\* C8 holds of every uninstall call made on a consistent registry
C8_FromConsistentRegistry ==
    [][(UninstallOf(TRUE) /\ ConsistentRegistry) =>
            /\ last'.res = "Ok"
            /\ Removed(last'.arg)
            /\ DependentsDisabled(last'.arg)]_vars

(***************************************************************************)
(* C9.  Profile precedence: a placeholder whose name is a key of the       *)
(* active profile is replaced by the profile's value, never by the global  *)
(* one, whether or not the global map defines the name; with global x = 1  *)
(* and profile x = 2, "${x}" resolves to "2".                              *)
(***************************************************************************)
ActiveVariables == get_active_profile(config, rs.profile_name).profile.variables

\* an iteration that replaces a placeholder
Substitutes ==
    /\ rs.pc = "loop"
    /\ rs'.pc = "loop"
    /\ HasMatch(rs.result)

C9_ProfilePrecedence ==
    /\ [][(Substitutes /\ Captures(rs.result).var_name \in DOMAIN ActiveVariables)
            => LET c == Captures(rs.result)
               IN  /\ rs'.replacement = ActiveVariables[c.var_name]
                   /\ rs'.result =
                         replace(rs.result, c.full_match, ActiveVariables[c.var_name])
                   /\ ~HasMatch(ActiveVariables[c.var_name])
                         => ~Occurs(rs'.result, c.full_match)]_vars
    /\ [](( /\ rs.pc = "done"
            /\ rs.input = Placeholder("x")
            /\ rs.profile_name = None
            /\ <<"x">> \in DOMAIN config.variables
            /\ config.variables[<<"x">>] = <<"1">>
            /\ "default" \in DOMAIN config.profiles
            /\ <<"x">> \in DOMAIN config.profiles["default"].variables
            /\ config.profiles["default"].variables[<<"x">>] = <<"2">>)
           => rs.result = <<"2">>)

\* the scenario: global x = 1, profile x = 2, "${x}" has been resolved to "2"
C9_Witness ==
    /\ rs.pc = "done"
    /\ rs.input = Placeholder("x")
    /\ <<"x">> \in DOMAIN config.variables
    /\ config.variables[<<"x">>] = <<"1">>
    /\ "default" \in DOMAIN config.profiles
    /\ <<"x">> \in DOMAIN config.profiles["default"].variables
    /\ config.profiles["default"].variables[<<"x">>] = <<"2">>
    /\ rs.var_name = <<"x">>
    /\ rs.replacement = <<"2">>
    /\ rs.result = <<"2">>

(***************************************************************************)
(* C10.  resolve_variables terminates for every input and every variable   *)
(* map; when the input holds a placeholder of a variable that resolves to  *)
(* text containing that placeholder again, directly or through other       *)
(* variables, the call still returns, and the string it returns still      *)
(* contains a placeholder.  The call has no error to return.               *)
(***************************************************************************)
ProfileFound == get_active_profile(config, rs.profile_name).ok

\* the names the value of var_name refers to
RefersTo(var_name) ==
    LET value == Lookup([variables |-> ActiveVariables], config.variables, var_name)
    IN  {n \in VarNames : Occurs(value, <<"$", "{">> \o n \o <<"}">>)}

RECURSIVE Reaches(_, _)
\* the names reached from those of S
Reaches(S, seen) ==
    LET T == UNION {RefersTo(n) : n \in S}
    IN  IF T \subseteq seen THEN seen ELSE Reaches(T \ seen, seen \cup T)

\* var_name resolves to text that contains ${var_name}
Cyclic(var_name) == var_name \in Reaches({var_name}, {})

\* the string holds the placeholder of a cyclic variable
HoldsCyclic(s) ==
    \E n \in VarNames : Cyclic(n) /\ Occurs(s, <<"$", "{">> \o n \o <<"}">>)

C10_TerminatesOnCycles ==
    /\ (rs.pc = "loop") ~> (rs.pc = "done")
    /\ []((rs.pc = "done" /\ ProfileFound /\ HoldsCyclic(rs.input))
            => (rs.broke /\ HasMatch(rs.result) /\ HoldsCyclic(rs.result)))

\* x and y refer to each other and "${x}" has come back as "${x}"
C10_Witness ==
    /\ rs.pc = "done"
    /\ rs.broke
    /\ rs.input = Placeholder("x")
    /\ rs.visited = VarNames
    /\ Cyclic(<<"x">>)
    /\ rs.result = Placeholder("x")

(***************************************************************************)
(* C11.  Given an existing profile, resolve_variables replaces every       *)
(* placeholder: whenever the variable definitions reachable from the input *)
(* contain no cycle, the returned string contains no placeholder, even     *)
(* when a name occurs again later through another variable's value.        *)
(* The code stops at the first name it meets a second time, cycle or not.  *)
(***************************************************************************)
\* the variables whose placeholder the string holds
NamesIn(s) == {n \in VarNames : Occurs(s, <<"$", "{">> \o n \o <<"}">>)}

\* no variable reachable from the placeholders of s refers back to itself
AcyclicFrom(s) == \A n \in Reaches(NamesIn(s), NamesIn(s)) : ~Cyclic(n)

C11_NoPlaceholderRemains ==
    (rs.pc = "done" /\ ProfileFound /\ AcyclicFrom(rs.input)) => ~HasMatch(rs.result)

\* what does hold: a call that returns without the visited-set break leaves no
\* placeholder, and one that breaks leaves the placeholder of a visited name
C11_PlaceholderOnlyAfterBreak ==
    (rs.pc = "done" /\ ProfileFound) =>
        IF rs.broke
        THEN HasMatch(rs.result) /\ Captures(rs.result).var_name \in rs.visited
        ELSE ~HasMatch(rs.result)

(***************************************************************************)
(* C12.  Resolution is idempotent once no placeholder remains: for every   *)
(* input whose resolved output contains no placeholder, resolving that     *)
(* output again with the same config and profile yields the same string    *)
(* as resolving once.                                                      *)
(***************************************************************************)
ResolvedOnce == resolve_variables(config, rs.input, rs.profile_name)

C12_Idempotent ==
    (rs.pc = "done" /\ ~HasMatch(ResolvedOnce)) =>
        /\ ResolvedOnce = rs.result
        /\ resolve_variables(config, ResolvedOnce, rs.profile_name) = ResolvedOnce

\* a call that replaced placeholders, returned a string without any, and whose
\* output resolves to itself
C12_Witness ==
    /\ rs.pc = "done"
    /\ Cardinality(rs.visited) = 2
    /\ rs.result # rs.input
    /\ rs.result # <<>>
    /\ ~HasMatch(rs.result)
    /\ resolve_variables(config, rs.result, rs.profile_name) = rs.result

(***************************************************************************)
(* Config::from_file and the merge of its imports (src/src/config.rs).     *)
(*                                                                         *)
(* A document is a Config without its metadata, which no merge touches.    *)
(* Every value of a document is the tag of the file it was written in, so  *)
(* the origin of each value of the merged document can be read off.        *)
(* Modules, keybindings and autostart entries are opaque: one per file.    *)
(***************************************************************************)
MaxImports == 2      \* entries of the imports list of the root document

\* a PathBuf: relative when it has no directory
Rel(name) == [dir |-> "", name |-> name]
Abs(dir, name) == [dir |-> dir, name |-> name]
is_absolute(p) == p.dir # ""
join(base_dir, p) == [dir |-> base_dir, name |-> p.name]

Import(path, merge) == [path |-> path, merge |-> merge]

HyprlandConfig(tag, with_path, theme_keys) ==
    [config_path |-> IF with_path THEN Some(Abs("hypr", tag)) ELSE Absent,
     modules |-> <<tag>>,
     theme |-> [k \in theme_keys |-> tag],
     keybindings |-> <<tag>>,
     autostart |-> <<tag>>]

Profile(tag, variable_keys, with_hyprland) ==
    [variables |-> [k \in variable_keys |-> tag],
     imports |-> <<Import(Rel(tag), TRUE)>>,
     hyprland |-> IF with_hyprland THEN Some(HyprlandConfig(tag, FALSE, {"c"}))
                  ELSE Absent]

Document(tag, variable_keys, profiles, imports, hyprland) ==
    [variables |-> [k \in variable_keys |-> tag],
     profiles |-> profiles,
     default_profile |-> "default",
     imports |-> imports,
     hyprland |-> hyprland]

\* insert without the test for an existing key
MergeOverwriting(self_variables, other_variables, merge) ==
    [key \in DOMAIN self_variables \cup DOMAIN other_variables |->
        IF key \in DOMAIN other_variables THEN other_variables[key]
        ELSE self_variables[key]]

\* the test for an existing key whatever the merge flag
MergeFillingGaps(self_variables, other_variables, merge) ==
    [key \in DOMAIN self_variables \cup DOMAIN other_variables |->
        IF key \in DOMAIN self_variables THEN self_variables[key]
        ELSE other_variables[key]]

\* the variables loop of merge_config, which is also its loop over the theme
\* keys (merge = TRUE) and over the variables of an existing profile
merge_variables(self_variables, other_variables, merge) ==
    [key \in DOMAIN self_variables \cup DOMAIN other_variables |->
        IF /\ key \in DOMAIN other_variables
           /\ ~(merge /\ key \in DOMAIN self_variables)
        THEN other_variables[key]
        ELSE self_variables[key]]

\* the branch of merge_config for a profile the target has already
merge_profile(existing, profile) ==
    [variables |-> merge_variables(existing.variables, profile.variables, TRUE),
     imports |-> existing.imports \o profile.imports,
     hyprland |-> IF is_none(existing.hyprland) THEN profile.hyprland
                  ELSE existing.hyprland]

merge_profiles(self_profiles, other_profiles, merge) ==
    [name \in DOMAIN self_profiles \cup DOMAIN other_profiles |->
        IF name \notin DOMAIN other_profiles THEN self_profiles[name]
        ELSE IF merge /\ name \in DOMAIN self_profiles
        THEN merge_profile(self_profiles[name], other_profiles[name])
        ELSE other_profiles[name]]

\* a replacement that does not look at the target's config_path
ReplaceHyprlandAlways(self_hyprland, other_hyprland, merge) ==
    IF merge
    THEN [config_path |-> self_hyprland.config_path,
          modules |-> self_hyprland.modules \o other_hyprland.modules,
          theme |-> merge_variables(self_hyprland.theme, other_hyprland.theme, TRUE),
          keybindings |-> self_hyprland.keybindings \o other_hyprland.keybindings,
          autostart |-> self_hyprland.autostart \o other_hyprland.autostart]
    ELSE other_hyprland

merge_hyprland(self_hyprland, other_hyprland, merge) ==
    IF merge
    THEN [config_path |-> self_hyprland.config_path,
          modules |-> self_hyprland.modules \o other_hyprland.modules,
          theme |-> merge_variables(self_hyprland.theme, other_hyprland.theme, TRUE),
          keybindings |-> self_hyprland.keybindings \o other_hyprland.keybindings,
          autostart |-> self_hyprland.autostart \o other_hyprland.autostart]
    ELSE IF is_none(self_hyprland.config_path) THEN other_hyprland
    ELSE self_hyprland

\* a merge that keeps the imports list of the target
MergeDroppingImports(self, other, merge) ==
    [variables |-> merge_variables(self.variables, other.variables, merge),
     profiles |-> merge_profiles(self.profiles, other.profiles, merge),
     default_profile |-> self.default_profile,
     imports |-> self.imports,
     hyprland |-> merge_hyprland(self.hyprland, other.hyprland, merge)]

merge_config(self, other, merge) ==
    [variables |-> merge_variables(self.variables, other.variables, merge),
     profiles |-> merge_profiles(self.profiles, other.profiles, merge),
     default_profile |-> self.default_profile,
     imports |-> self.imports \o other.imports,
     hyprland |-> merge_hyprland(self.hyprland, other.hyprland, merge)]

\* what a file holds: text that parses as a document, or text that does not
Toml(doc) == [parses |-> TRUE, doc |-> doc]
Unparsable ==
    [parses |-> FALSE,
     doc |-> Document("", {}, EmptyMap, <<>>, HyprlandConfig("", FALSE, {}))]

ConfigDir == "etc"
RootPath == Abs(ConfigDir, "r")

LoadOk == [kind |-> "Ok", path |-> Rel("")]
\* an error that names the file the load started from
ErrNamingRoot(kind, path) == [kind |-> kind, path |-> RootPath]

LoadErr(kind, path) == [kind |-> kind, path |-> path]

\* the end of the loop of process_imports, where from_file returns the document
Finished(l, document) ==
    IF l.pending = <<>>
    THEN [l EXCEPT !.pc = "done", !.res = LoadOk, !.returned = Some(document)]
    ELSE l

\* Config::from_file up to its call of process_imports, which takes the
\* imports list out of the document
FromFile ==
    /\ load.pc = "call"
    /\ IF load.path \notin DOMAIN fs
       THEN /\ load' = [load EXCEPT !.pc = "done",
                           !.res = LoadErr("Failed to read config file", load.path)]
            /\ UNCHANGED config
       ELSE IF ~fs[load.path].parses
       THEN /\ load' = [load EXCEPT !.pc = "done",
                           !.res = LoadErr("Failed to parse config file", load.path)]
            /\ UNCHANGED config
       ELSE LET parsed == fs[load.path].doc
                taken == [parsed EXCEPT !.imports = <<>>]
            IN  /\ config' = taken
                /\ load' = Finished([load EXCEPT !.pc = "imports",
                                        !.pending = parsed.imports], taken)
    /\ UNCHANGED <<plugins, enabled_plugins, fs, last, rs, theme_vars>>

\* a guard that lets every import through
NeverProcessed(processed, full_path) == FALSE

\* the guard of process_import against a path met before in this load
AlreadyProcessed(processed, full_path) == full_path \in processed

\* a loop that takes the imports from the back of the list
LastImportFirst(pending) ==
    [import |-> pending[Len(pending)], rest |-> SubSeq(pending, 1, Len(pending) - 1)]

\* the for loop of process_imports yields the imports in declaration order
NextImport(pending) == [import |-> Head(pending), rest |-> Tail(pending)]

\* one iteration of the loop of process_imports: Config::process_import
ProcessImport ==
    /\ load.pc = "imports"
    /\ load.pending # <<>>
    /\ LET import == NextImport(load.pending).import
           base_dir == load.path.dir
           full_path == IF is_absolute(import.path) THEN import.path
                        ELSE join(base_dir, import.path)
           rest == [load EXCEPT !.pending = NextImport(@).rest]
           read == [rest EXCEPT !.processed = @ \cup {full_path}]
       IN  IF AlreadyProcessed(load.processed, full_path)
           THEN /\ load' = Finished(rest, config)
                /\ UNCHANGED config
           ELSE IF full_path \notin DOMAIN fs
           THEN /\ load' = [read EXCEPT !.pc = "done",
                               !.res = LoadErr("Failed to read import file", full_path)]
                /\ UNCHANGED config
           ELSE IF ~fs[full_path].parses
           THEN /\ load' = [read EXCEPT !.pc = "done",
                               !.res = LoadErr("Failed to parse import file", full_path)]
                /\ UNCHANGED config
           ELSE LET other == fs[full_path].doc
                    after == merge_config(config, other, import.merge)
                IN  /\ config' = after
                    /\ load' = Finished([read EXCEPT !.merged =
                                   Append(@, [import |-> import, full_path |-> full_path,
                                              before |-> config, other |-> other,
                                              after |-> after])], after)
    /\ UNCHANGED <<plugins, enabled_plugins, fs, last, rs, theme_vars>>

\* the documents a file can hold
ProfileMaps(tag) ==
    {EmptyMap} \cup {[n \in {"p"} |-> Profile(tag, variable_keys, with_hyprland)] :
                        variable_keys \in SUBSET {"k"}, with_hyprland \in BOOLEAN}

ImportEntries ==
    {Import(path, merge) :
        path \in {Rel("a"), Abs(ConfigDir, "a"), Rel("b")}, merge \in BOOLEAN}

ImportLists == UNION {[1..n -> ImportEntries] : n \in 0..MaxImports}

RootDocuments ==
    {Document("r", variable_keys, profiles, imports,
              HyprlandConfig("r", with_path, theme_keys)) :
        variable_keys \in SUBSET {"k"}, profiles \in ProfileMaps("r"),
        imports \in ImportLists, with_path \in BOOLEAN, theme_keys \in SUBSET {"c"}}

\* an imported document defines every key, or none; it has an import of its own
ImportedDocuments(tag) ==
    {Document(tag, {"k"}, [n \in {"p"} |-> Profile(tag, {"k"}, with_hyprland)],
              <<Import(Rel("n"), TRUE)>>, HyprlandConfig(tag, with_path, {"c"})) :
        with_hyprland \in BOOLEAN, with_path \in BOOLEAN}
    \cup {Document(tag, {}, EmptyMap, <<>>, HyprlandConfig(tag, FALSE, {}))}

\* the file system of a load: r is the root document, which imports a and b
LoadDisk(r, a, b) ==
    LET all == (RootPath :> r) @@ (Abs(ConfigDir, "a") :> a) @@ (Abs(ConfigDir, "b") :> b)
    IN  [p \in {q \in DOMAIN all : ~is_none(all[q])} |-> all[p][1]]

LoadDisks ==
    {LoadDisk(r, a, b) :
        r \in {Absent, Some(Unparsable)} \cup {Some(Toml(d)) : d \in RootDocuments},
        a \in {Absent, Some(Unparsable)} \cup {Some(Toml(d)) : d \in ImportedDocuments("a")},
        b \in {Absent, Some(Toml(Document("b", {"k"}, EmptyMap,
                                          <<Import(Rel("m"), FALSE)>>,
                                          HyprlandConfig("b", TRUE, {"c"}))))}}

InitLoad ==
    /\ plugins = EmptyMap
    /\ enabled_plugins = <<>>
    /\ last = Call("new", "", "Ok", <<>>, {})
    /\ rs = IdleResolver
    /\ ThemesIdle
    /\ fs \in LoadDisks
    /\ config = EmptyConfig
    /\ load = [IdleLoad EXCEPT !.pc = "call", !.path = RootPath]

NextLoad == FromFile \/ ProcessImport

SpecLoad == InitLoad /\ [][NextLoad]_vars

(***************************************************************************)
(* Claims about the merge of imports.                                      *)
(***************************************************************************)
\* every key of the map before has its value after, and what was added are the
\* keys of other that before lacks, with other's values
FillsGaps(before, other, after) ==
    /\ DOMAIN after = DOMAIN before \cup DOMAIN other
    /\ \A key \in DOMAIN before : after[key] = before[key]
    /\ \A key \in DOMAIN other \ DOMAIN before : after[key] = other[key]

VariablesOf(profiles, name) ==
    IF name \in DOMAIN profiles THEN profiles[name].variables ELSE EmptyMap

MergesWith(flag) == {i \in DOMAIN load.merged : load.merged[i].import.merge = flag}

\* C13: an import merged with merge = true overwrites no key the target has:
\* the global variables, the variables of a profile the target has, the theme
\* keys and the platform override of such a profile keep their values, and
\* only keys the target lacks are added
C13_MergeFillsGaps ==
    \A i \in MergesWith(TRUE) :
        LET m == load.merged[i]
        IN  /\ FillsGaps(m.before.variables, m.other.variables, m.after.variables)
            /\ FillsGaps(m.before.hyprland.theme, m.other.hyprland.theme,
                         m.after.hyprland.theme)
            /\ DOMAIN m.after.profiles =
                   DOMAIN m.before.profiles \cup DOMAIN m.other.profiles
            /\ \A name \in DOMAIN m.before.profiles :
                  /\ FillsGaps(m.before.profiles[name].variables,
                               VariablesOf(m.other.profiles, name),
                               m.after.profiles[name].variables)
                  /\ ~is_none(m.before.profiles[name].hyprland) =>
                        m.after.profiles[name].hyprland = m.before.profiles[name].hyprland
            /\ \A name \in DOMAIN m.other.profiles \ DOMAIN m.before.profiles :
                  m.after.profiles[name] = m.other.profiles[name]

\* a merge with merge = true where the import and the target both define the
\* global variable, the theme key, the profile, its variable and its platform
\* override
C13_Witness ==
    \E i \in MergesWith(TRUE) :
        LET m == load.merged[i]
        IN  /\ "k" \in DOMAIN m.before.variables /\ "k" \in DOMAIN m.other.variables
            /\ "c" \in DOMAIN m.before.hyprland.theme
            /\ "c" \in DOMAIN m.other.hyprland.theme
            /\ "p" \in DOMAIN m.before.profiles /\ "p" \in DOMAIN m.other.profiles
            /\ "k" \in DOMAIN m.before.profiles["p"].variables
            /\ ~is_none(m.before.profiles["p"].hyprland)
            /\ ~is_none(m.other.profiles["p"].hyprland)
            /\ m.other.variables["k"] # m.before.variables["k"]
            /\ m.after # m.before

\* the keys both maps have carry other's value after
Overwrites(before, other, after) ==
    \A key \in DOMAIN before \cap DOMAIN other :
        key \in DOMAIN after /\ after[key] = other[key]

\* C14: an import merged with merge = false overwrites on every conflicting
\* key: a global variable, a profile name or a theme key that the target and
\* the import both have carries the import's value after the merge
C14_ReplaceOverwrites ==
    \A i \in MergesWith(FALSE) :
        LET m == load.merged[i]
        IN  /\ Overwrites(m.before.variables, m.other.variables, m.after.variables)
            /\ Overwrites(m.before.profiles, m.other.profiles, m.after.profiles)
            /\ Overwrites(m.before.hyprland.theme, m.other.hyprland.theme,
                          m.after.hyprland.theme)

\* C14 as the code has it: global variables and profiles are overwritten; the
\* theme keys are overwritten, with the whole platform block, when the target
\* has no config_path, and the target's block is kept when it has one
C14_ReplaceOverwritesUnlessPath ==
    \A i \in MergesWith(FALSE) :
        LET m == load.merged[i]
        IN  /\ Overwrites(m.before.variables, m.other.variables, m.after.variables)
            /\ Overwrites(m.before.profiles, m.other.profiles, m.after.profiles)
            /\ IF is_none(m.before.hyprland.config_path)
               THEN Overwrites(m.before.hyprland.theme, m.other.hyprland.theme,
                               m.after.hyprland.theme)
               ELSE m.after.hyprland = m.before.hyprland

\* a merge with merge = false where the target and the import both define the
\* global variable, the profile and the theme key, and the target has no
\* config_path: all three carry the import's value
C14_Witness ==
    \E i \in MergesWith(FALSE) :
        LET m == load.merged[i]
        IN  /\ "k" \in DOMAIN m.before.variables \cap DOMAIN m.other.variables
            /\ "p" \in DOMAIN m.before.profiles \cap DOMAIN m.other.profiles
            /\ "c" \in DOMAIN m.before.hyprland.theme \cap DOMAIN m.other.hyprland.theme
            /\ is_none(m.before.hyprland.config_path)
            /\ m.before.variables["k"] # m.other.variables["k"]
            /\ m.after.variables["k"] = m.other.variables["k"]
            /\ m.after.profiles["p"] = m.other.profiles["p"]
            /\ m.after.hyprland.theme["c"] = m.other.hyprland.theme["c"]

(***************************************************************************)
(* The theme store (src/src/themes.rs).                                    *)
(*                                                                         *)
(* A theme is its name, its colors and its variables; the fields that no   *)
(* operation of the manager reads are left out.  A theme file is           *)
(* <<dir, name, ext>> for dir/<name>.<ext> and <<dir, name, "theme", ext>> *)
(* for dir/<name>/theme.<ext>.                                             *)
(***************************************************************************)
Theme(name, colors, variables) ==
    [name |-> name, colors |-> colors, variables |-> variables]

\* ThemeLoader::default: the config, the data and the local themes directory
ThemeDirs == <<"cfg", "data", "loc">>

FlatFile(dir, name, ext) == <<dir, name, ext>>
SubdirFile(dir, name, ext) == <<dir, name, "theme", ext>>

ThemeResult(res, theme) == [res |-> res, theme |-> theme]

\* Theme::from_file for a file with extension toml or json
from_file(disk, path) ==
    IF disk[path].parses THEN ThemeResult("Ok", Some(disk[path].theme))
    ELSE ThemeResult("Failed to parse theme file", Absent)

\* the files load_theme tries in one directory, in its order
CandidatesIn(dir, name) ==
    <<FlatFile(dir, name, "toml"), FlatFile(dir, name, "json"),
      SubdirFile(dir, name, "toml"), SubdirFile(dir, name, "json")>>

Candidates(name) ==
    CandidatesIn(ThemeDirs[1], name) \o CandidatesIn(ThemeDirs[2], name)
        \o CandidatesIn(ThemeDirs[3], name)

\* ThemeLoader::load_theme
load_theme(disk, name) ==
    LET tried == Candidates(name)
        found == {i \in DOMAIN tried : tried[i] \in DOMAIN disk}
    IN  IF found = {} THEN ThemeResult("Theme not found", Absent)
        ELSE from_file(disk, tried[CHOOSE i \in found : \A j \in found : i <= j])

\* a set_theme that empties the slot when the theme cannot be loaded
SetThemeClearingOnFailure(cache, active, disk, name) ==
    IF name \in DOMAIN cache
    THEN [theme_cache |-> cache, active_theme |-> Some(cache[name]),
          res |-> "Ok", hit |-> TRUE]
    ELSE LET loaded == load_theme(disk, name)
         IN  IF loaded.res # "Ok"
             THEN [theme_cache |-> cache, active_theme |-> Absent,
                   res |-> loaded.res, hit |-> FALSE]
             ELSE [theme_cache |-> MapInsert(cache, name, loaded.theme[1]),
                   active_theme |-> loaded.theme, res |-> "Ok", hit |-> FALSE]

\* a set_theme that reads the storage on every call
SetThemeAlwaysLoading(cache, active, disk, name) ==
    LET loaded == load_theme(disk, name)
    IN  IF loaded.res # "Ok"
        THEN [theme_cache |-> cache, active_theme |-> active,
              res |-> loaded.res, hit |-> FALSE]
        ELSE [theme_cache |-> MapInsert(cache, name, loaded.theme[1]),
              active_theme |-> loaded.theme, res |-> "Ok", hit |-> FALSE]

\* ThemeManager::set_theme on the cache and the active slot
set_theme(cache, active, disk, name) ==
    IF name \in DOMAIN cache
    THEN [theme_cache |-> cache, active_theme |-> Some(cache[name]),
          res |-> "Ok", hit |-> TRUE]
    ELSE LET loaded == load_theme(disk, name)
         IN  IF loaded.res # "Ok"
             THEN [theme_cache |-> cache, active_theme |-> active,
                   res |-> loaded.res, hit |-> FALSE]
             ELSE [theme_cache |-> MapInsert(cache, name, loaded.theme[1]),
                   active_theme |-> loaded.theme, res |-> "Ok", hit |-> FALSE]

\* ThemeManager::reload_theme
reload_theme(cache, active, disk) ==
    IF is_none(active)
    THEN [theme_cache |-> cache, active_theme |-> active,
          res |-> "No active theme to reload", hit |-> FALSE]
    ELSE LET theme_name == active[1].name
         IN  set_theme(MapRemove(cache, theme_name), active, disk, theme_name)

Value(res, value) == [res |-> res, value |-> value]

\* the lookup in the variables of the theme instead of its colors
GetColorFromVariables(active, color_name) ==
    IF is_none(active) THEN Value("No active theme", "")
    ELSE IF color_name \in DOMAIN active[1].variables
    THEN Value("Ok", active[1].variables[color_name])
    ELSE Value("Color not found", "")

\* ThemeManager::get_theme_color
get_theme_color(active, color_name) ==
    IF is_none(active) THEN Value("No active theme", "")
    ELSE IF color_name \in DOMAIN active[1].colors
    THEN Value("Ok", active[1].colors[color_name])
    ELSE Value("Color not found", "")

\* a getter of variables that reports every failure as a missing key
GetVariableOrNotFound(active, var_name) ==
    IF ~is_none(active) /\ var_name \in DOMAIN active[1].variables
    THEN Value("Ok", active[1].variables[var_name])
    ELSE Value("Variable not found", "")

\* ThemeManager::get_theme_variable
get_theme_variable(active, var_name) ==
    IF is_none(active) THEN Value("No active theme", "")
    ELSE IF var_name \in DOMAIN active[1].variables
    THEN Value("Ok", active[1].variables[var_name])
    ELSE Value("Variable not found", "")

\* the last call of the theme manager: what it returned, and for set_theme and
\* reload_theme whether the theme came from the cache
ThemeCall(op, arg, res, value, hit) ==
    [op |-> op, arg |-> arg, res |-> res, value |-> value, hit |-> hit]

SetTheme(name) ==
    /\ LET r == set_theme(theme_cache, active_theme, fs, name)
       IN  /\ theme_cache' = r.theme_cache
           /\ active_theme' = r.active_theme
           /\ last' = ThemeCall("set_theme", name, r.res, "", r.hit)
    /\ UNCHANGED <<plugins, enabled_plugins, fs, config, rs, loader_vars, lock, th>>

ReloadTheme ==
    /\ LET r == reload_theme(theme_cache, active_theme, fs)
       IN  /\ theme_cache' = r.theme_cache
           /\ active_theme' = r.active_theme
           /\ last' = ThemeCall("reload_theme", "", r.res, "", r.hit)
    /\ UNCHANGED <<plugins, enabled_plugins, fs, config, rs, loader_vars, lock, th>>

GetThemeColor(color_name) ==
    /\ LET r == get_theme_color(active_theme, color_name)
       IN  last' = ThemeCall("get_theme_color", color_name, r.res, r.value, FALSE)
    /\ UNCHANGED <<plugins, enabled_plugins, fs, config, rs, loader_vars, theme_vars>>

GetThemeVariable(var_name) ==
    /\ LET r == get_theme_variable(active_theme, var_name)
       IN  last' = ThemeCall("get_theme_variable", var_name, r.res, r.value, FALSE)
    /\ UNCHANGED <<plugins, enabled_plugins, fs, config, rs, loader_vars, theme_vars>>

\* ThemeManager::save_theme: the theme is written to <config>/<name>.<ext> and
\* put in the cache under its own name
save_theme(cache, disk, theme, ext) ==
    [theme_cache |-> MapInsert(cache, theme.name, theme),
     fs |-> MapInsert(disk, FlatFile(ThemeDirs[1], theme.name, ext),
                      [parses |-> TRUE, theme |-> theme]),
     res |-> "Ok"]

SaveTheme(theme, ext) ==
    /\ LET r == save_theme(theme_cache, fs, theme, ext)
       IN  /\ theme_cache' = r.theme_cache
           /\ fs' = r.fs
           /\ last' = ThemeCall("save_theme", theme.name, r.res, "", FALSE)
    /\ UNCHANGED <<plugins, enabled_plugins, config, rs, loader_vars, active_theme,
                   lock, th>>

\* the theme files and what they can hold
ColorNames == {"background"}
VariableNames == {"gap"}
ThemeNames == {"nord", "dark", "Nord"}

Parsed(theme) == [parses |-> TRUE, theme |-> theme]
NotATheme == [parses |-> FALSE, theme |-> Theme("", EmptyMap, EmptyMap)]

Background(value) == [k \in {"background"} |-> value]
Gap(value) == [k \in {"gap"} |-> value]

NordToml ==
    {Absent, Some(NotATheme),
     Some(Parsed(Theme("nord", Background("#2e3440"), Gap("4")))),
     Some(Parsed(Theme("Nord", Background("#3b4252"), EmptyMap)))}
NordJson == {Absent, Some(Parsed(Theme("nord", EmptyMap, Gap("8"))))}
NordSubdir == {Absent, Some(Parsed(Theme("nord", Background("#4c566a"), EmptyMap)))}
\* dark.json can be a copy of a nord theme that still carries the name "nord"
DarkJson ==
    {Absent, Some(Parsed(Theme("dark", Background("#000000"), Gap("4")))),
     Some(Parsed(Theme("nord", Background("#111111"), EmptyMap)))}

ThemeDisk(a, b, c, d) ==
    LET all == (FlatFile("cfg", "nord", "toml") :> a)
               @@ (FlatFile("cfg", "nord", "json") :> b)
               @@ (SubdirFile("loc", "nord", "toml") :> c)
               @@ (FlatFile("data", "dark", "json") :> d)
    IN  [p \in {q \in DOMAIN all : ~is_none(all[q])} |-> all[p][1]]

ThemeDisks ==
    {ThemeDisk(a, b, c, d) :
        a \in NordToml, b \in NordJson, c \in NordSubdir, d \in DarkJson}

\* somebody edits, adds or removes theme files
StorageChangesWithin(disks) ==
    /\ fs' \in disks \ {fs}
    /\ UNCHANGED <<plugins, enabled_plugins, last, config, rs, loader_vars, theme_vars>>

StorageChanges == StorageChangesWithin(ThemeDisks)

\* the themes the host saves, and the formats it saves them in
SavedThemes == {Theme("nord", Background("#eceff4"), Gap("2"))}
ThemeFormats == {"toml", "json"}

InitThemes ==
    /\ plugins = EmptyMap
    /\ enabled_plugins = <<>>
    /\ ResolverIdle /\ LoaderIdle /\ ThemesIdle
    /\ last = ThemeCall("new", "", "Ok", "", FALSE)
    /\ fs \in ThemeDisks

NextThemes ==
    \/ \E name \in ThemeNames : SetTheme(name)
    \/ ReloadTheme
    \/ \E color_name \in ColorNames : GetThemeColor(color_name)
    \/ \E var_name \in VariableNames : GetThemeVariable(var_name)
    \/ \E theme \in SavedThemes, ext \in ThemeFormats : SaveTheme(theme, ext)
    \/ StorageChanges

SpecThemes == InitThemes /\ [][NextThemes]_vars

(***************************************************************************)
(* Claims about the theme store.                                           *)
(***************************************************************************)
\* what a getter returns for a key of a map: its value, or the error
Reads(map, key, missing) ==
    IF key \in DOMAIN map THEN Value("Ok", map[key]) ELSE Value(missing, "")

\* the theme the store holds under name when set_theme(name) is called: the
\* cache entry, and without one the theme parsed from the first file found
StoredUnder(name) ==
    IF name \in DOMAIN theme_cache THEN theme_cache[name]
    ELSE load_theme(fs, name).theme[1]

Writer == "w"
Readers == {"r1", "r2"}

IdleCaller ==
    [pc |-> "idle", op |-> None, arg |-> "", theme |-> Absent, old |-> Absent,
     seen |-> Absent, res |-> Value(None, "")]

\* RwLock::read with no check for a writer
ReadUnguarded(l) == TRUE

\* RwLock::read returns when no writer holds the lock
CanRead(l) == l.writer = None

\* RwLock::write returns when nobody holds the lock
CanWrite(l) == l.writer = None /\ l.readers = {}

\* the slot while Some(theme) is moved into it
Torn(old, theme) ==
    Some(Theme(theme.name, theme.colors,
               IF is_none(old) THEN EmptyMap ELSE old[1].variables))

\* set_theme is called
CallSetTheme(name) ==
    /\ th[Writer].pc = "idle"
    /\ th' = [th EXCEPT ![Writer] =
                 [IdleCaller EXCEPT !.pc = "set_theme", !.op = "set_theme", !.arg = name]]
    /\ UNCHANGED <<plugins, enabled_plugins, fs, last, config, rs, loader_vars,
                   theme_cache, active_theme, lock>>

\* reload_theme takes the read lock
ReloadAcquire ==
    /\ th[Writer].pc = "idle"
    /\ CanRead(lock)
    /\ lock' = [lock EXCEPT !.readers = @ \cup {Writer}]
    /\ th' = [th EXCEPT ![Writer] =
                 [IdleCaller EXCEPT !.pc = "reload_theme", !.op = "reload_theme"]]
    /\ UNCHANGED <<plugins, enabled_plugins, fs, last, config, rs, loader_vars,
                   theme_cache, active_theme>>

\* reload_theme reads the name, drops the read lock and clears the cache
\* entry, or returns its error
ReloadName ==
    /\ th[Writer].pc = "reload_theme"
    /\ lock' = [lock EXCEPT !.readers = @ \ {Writer}]
    /\ IF is_none(active_theme)
       THEN /\ th' = [th EXCEPT ![Writer].pc = "idle",
                                ![Writer].res = Value("No active theme to reload", "")]
            /\ UNCHANGED theme_cache
       ELSE /\ th' = [th EXCEPT ![Writer].pc = "set_theme",
                                ![Writer].arg = active_theme[1].name]
            /\ theme_cache' = MapRemove(theme_cache, active_theme[1].name)
    /\ UNCHANGED <<plugins, enabled_plugins, fs, last, config, rs, loader_vars,
                   active_theme>>

\* set_theme takes the theme from the cache or loads it
SetThemeCache ==
    /\ th[Writer].pc = "set_theme"
    /\ LET name == th[Writer].arg
           loaded == load_theme(fs, name)
       IN  IF name \in DOMAIN theme_cache
           THEN /\ th' = [th EXCEPT ![Writer].pc = "write",
                                    ![Writer].theme = Some(theme_cache[name])]
                /\ UNCHANGED theme_cache
           ELSE IF loaded.res # "Ok"
           THEN /\ th' = [th EXCEPT ![Writer].pc = "idle",
                                    ![Writer].res = Value(loaded.res, "")]
                /\ UNCHANGED theme_cache
           ELSE /\ th' = [th EXCEPT ![Writer].pc = "write",
                                    ![Writer].theme = loaded.theme]
                /\ theme_cache' = MapInsert(theme_cache, name, loaded.theme[1])
    /\ UNCHANGED <<plugins, enabled_plugins, fs, last, config, rs, loader_vars,
                   active_theme, lock>>

\* set_theme takes the write lock
AcquireWrite ==
    /\ th[Writer].pc = "write"
    /\ CanWrite(lock)
    /\ lock' = [lock EXCEPT !.writer = Writer]
    /\ th' = [th EXCEPT ![Writer].pc = "store"]
    /\ UNCHANGED <<plugins, enabled_plugins, fs, last, config, rs, loader_vars,
                   theme_cache, active_theme>>

\* *active = Some(theme), begun
StoreBegin ==
    /\ th[Writer].pc = "store"
    /\ active_theme' = Torn(active_theme, th[Writer].theme[1])
    /\ th' = [th EXCEPT ![Writer].pc = "storing", ![Writer].old = active_theme]
    /\ UNCHANGED <<plugins, enabled_plugins, fs, last, config, rs, loader_vars,
                   theme_cache, lock>>

\* *active = Some(theme), done
StoreEnd ==
    /\ th[Writer].pc = "storing"
    /\ active_theme' = th[Writer].theme
    /\ th' = [th EXCEPT ![Writer].pc = "stored"]
    /\ UNCHANGED <<plugins, enabled_plugins, fs, last, config, rs, loader_vars,
                   theme_cache, lock>>

\* set_theme returns and drops the write lock
ReleaseWrite ==
    /\ th[Writer].pc = "stored"
    /\ lock' = [lock EXCEPT !.writer = None]
    /\ th' = [th EXCEPT ![Writer].pc = "idle", ![Writer].res = Value("Ok", "")]
    /\ UNCHANGED <<plugins, enabled_plugins, fs, last, config, rs, loader_vars,
                   theme_cache, active_theme>>

ReaderCalls == {<<"get_active_theme", "">>, <<"get_theme_color", "background">>,
                <<"get_theme_variable", "gap">>}

\* a getter takes the read lock
AcquireRead(t, call) ==
    /\ th[t].pc = "idle"
    /\ CanRead(lock)
    /\ lock' = [lock EXCEPT !.readers = @ \cup {t}]
    /\ th' = [th EXCEPT ![t] = [IdleCaller EXCEPT !.pc = "read", !.op = call[1],
                                                  !.arg = call[2]]]
    /\ UNCHANGED <<plugins, enabled_plugins, fs, last, config, rs, loader_vars,
                   theme_cache, active_theme>>

\* a getter reads the slot through its guard
ReadSlot(t) ==
    /\ th[t].pc = "read"
    /\ th' = [th EXCEPT ![t].pc = "release", ![t].seen = active_theme,
                        ![t].res =
                            IF th[t].op = "get_theme_color"
                            THEN get_theme_color(active_theme, th[t].arg)
                            ELSE IF th[t].op = "get_theme_variable"
                            THEN get_theme_variable(active_theme, th[t].arg)
                            ELSE Value("Ok", "")]
    /\ UNCHANGED <<plugins, enabled_plugins, fs, last, config, rs, loader_vars,
                   theme_cache, active_theme, lock>>

\* a getter returns and drops the read lock
ReleaseRead(t) ==
    /\ th[t].pc = "release"
    /\ lock' = [lock EXCEPT !.readers = @ \ {t}]
    /\ th' = [th EXCEPT ![t] = IdleCaller]
    /\ UNCHANGED <<plugins, enabled_plugins, fs, last, config, rs, loader_vars,
                   theme_cache, active_theme>>

\* the theme files of the concurrent callers: cfg/nord.toml and data/dark.json
SharedDisks ==
    {d \in ThemeDisks :
        DOMAIN d \subseteq {FlatFile("cfg", "nord", "toml"), FlatFile("data", "dark", "json")}}

InitShared ==
    /\ plugins = EmptyMap
    /\ enabled_plugins = <<>>
    /\ ResolverIdle /\ LoaderIdle
    /\ last = ThemeCall("new", "", "Ok", "", FALSE)
    /\ fs \in SharedDisks
    /\ theme_cache = EmptyMap
    /\ active_theme = Absent
    /\ lock = NoLock
    /\ th = [t \in {Writer} \cup Readers |-> IdleCaller]

NextShared ==
    \/ \E name \in ThemeNames : CallSetTheme(name)
    \/ ReloadAcquire
    \/ ReloadName
    \/ SetThemeCache
    \/ AcquireWrite
    \/ StoreBegin
    \/ StoreEnd
    \/ ReleaseWrite
    \/ \E t \in Readers, call \in ReaderCalls : AcquireRead(t, call)
    \/ \E t \in Readers : ReadSlot(t)
    \/ \E t \in Readers : ReleaseRead(t)
    \/ StorageChangesWithin(SharedDisks)

SpecShared == InitShared /\ [][NextShared]_vars

\* the themes the files of the concurrent callers can hold
StoredThemes ==
    UNION {{d[p].theme : p \in {q \in DOMAIN d : d[q].parses}} : d \in SharedDisks}

\* nothing, or one theme as a whole
Whole(slot) == is_none(slot) \/ slot[1] \in StoredThemes

\* what the slot held before the assignment in progress and what it will hold
\* after it; the slot itself when no assignment is in progress
OldOrNew ==
    IF th[Writer].pc = "storing" THEN {th[Writer].old, th[Writer].theme}
    ELSE {active_theme}

\* C16: a getter that runs while set_theme or reload_theme is in flight reads
\* the whole old theme or the whole new theme, never parts of both
C16_ReadersSeeOldOrNew ==
    [][\A t \in Readers :
          ReadSlot(t) => th'[t].seen \in OldOrNew /\ Whole(th'[t].seen)]_vars

\* a reload is in flight with a theme that differs from the active one, and a
\* getter has read the old theme as a whole while another takes the read lock
C16_Witness ==
    /\ th[Writer].op = "reload_theme" /\ th[Writer].pc = "write"
    /\ th["r1"].pc = "release" /\ th["r2"].pc = "read"
    /\ ~is_none(th["r1"].seen)
    /\ th["r1"].seen # th[Writer].theme
    /\ th["r1"].seen[1].colors # th[Writer].theme[1].colors
    /\ th["r1"].seen[1].variables # th[Writer].theme[1].variables

(***************************************************************************)
(* Claims about the errors of enable_plugin and execute_command.           *)
(***************************************************************************)
\* an enable step that fails on a dependency
EnableFailedOnDependency ==
    /\ last'.op = "enable"
    /\ last'.res \in {"DependencyMissing", "DependencyVersionMismatch"}

\* C17: a failed enable rolls nothing back: the dependencies this call has
\* enabled are in state Enabled and in enabled_plugins, every plugin enabled
\* before the call is still enabled and enabled_plugins starts with the list
\* of before, and the plugin itself is not enabled
C17_NoRollback ==
    [][EnableFailedOnDependency =>
          /\ \A d \in Range(last'.trace) :
                plugins'[d].state = "Enabled" /\ Contains(enabled_plugins', d)
          /\ \A n \in DOMAIN plugins :
                plugins[n].state = "Enabled" =>
                    n \in DOMAIN plugins' /\ plugins'[n].state = "Enabled"
          /\ Len(enabled_plugins') >= Len(enabled_plugins)
          /\ SubSeq(enabled_plugins', 1, Len(enabled_plugins)) = enabled_plugins
          /\ enabled_plugins' = enabled_plugins \o last'.trace
          /\ plugins'[last'.arg].state # "Enabled"
          /\ ~Contains(enabled_plugins', last'.arg)]_vars

\* an enable has failed on a dependency after it had enabled another one, with
\* a plugin enabled before the call
C17_Witness ==
    /\ last.op = "enable"
    /\ last.res \in {"DependencyMissing", "DependencyVersionMismatch"}
    /\ last.trace # <<>>
    /\ Len(enabled_plugins) > Len(last.trace)
    /\ \A d \in Range(last.trace) : plugins[d].state = "Enabled"
    /\ plugins[last.arg].state = "Installed"

\* the registered dependencies of name whose version fails the requirement
Mismatched(map, name) ==
    {d \in DepsOf(map, name) \cap DOMAIN map :
        ~satisfies_requirement(map[d].manifest, map[name].manifest.dependencies[d])}

\* an enable step on a registered plugin that is Installed, outside
\* enabled_plugins and has a registered dependency of an unfit version
EnableWithMismatchedDep ==
    /\ last'.op = "enable"
    /\ last'.arg \in DOMAIN plugins
    /\ Mismatched(plugins, last'.arg) # {}
    /\ plugins[last'.arg].state = "Installed"
    /\ ~InList(last'.arg)

\* the call has enabled neither the plugin nor a dependency of unfit version
NothingUnfitEnabled ==
    /\ plugins'[last'.arg].state = "Installed"
    /\ ~Contains(enabled_plugins', last'.arg)
    /\ Mismatched(plugins, last'.arg) \cap Range(last'.trace) = {}

DeclaresCommand(plugin, command_name) ==
    \E i \in 1..Len(plugin.manifest.commands) :
        plugin.manifest.commands[i].name = command_name

\* what a call of execute_command returns, and whether it ran the script
CommandResult(res, invoked) == [res |-> res, invoked |-> invoked]

\* Plugin::execute_command: ran is what the script executor reports
plugin_execute_command(plugin, disk, command_name, ran) ==
    IF ~DeclaresCommand(plugin, command_name) THEN CommandResult("CommandNotFound", FALSE)
    ELSE IF ScriptResult(plugin, disk, ran) = "missing"
    THEN CommandResult("CommandScriptNotFound", FALSE)
    ELSE IF ran = "ok" THEN CommandResult("Ok", TRUE)
    ELSE CommandResult("CommandScriptFailed", TRUE)

\* the test for the command before the test for the enabled list
ExecuteCommandOfAny(map, enabled, disk, plugin_name, command_name, ran) ==
    IF plugin_name \notin DOMAIN map THEN CommandResult("NotFound", FALSE)
    ELSE IF ~DeclaresCommand(map[plugin_name], command_name)
    THEN CommandResult("CommandNotFound", FALSE)
    ELSE IF ~Contains(enabled, plugin_name) THEN CommandResult("NotEnabled", FALSE)
    ELSE plugin_execute_command(map[plugin_name], disk, command_name, ran)

\* PluginManager::execute_command
execute_command(map, enabled, disk, plugin_name, command_name, ran) ==
    IF plugin_name \notin DOMAIN map THEN CommandResult("NotFound", FALSE)
    ELSE IF ~Contains(enabled, plugin_name) THEN CommandResult("NotEnabled", FALSE)
    ELSE plugin_execute_command(map[plugin_name], disk, command_name, ran)

ExecuteCommand(plugin_name, command_name) ==
    /\ Alive
    /\ \E ran \in ScriptOutcomes :
          LET r == execute_command(plugins, enabled_plugins, fs, plugin_name,
                                   command_name, ran)
          IN  last' = [op |-> "execute_command", arg |-> plugin_name, res |-> r.res,
                       trace |-> <<>>, results |-> {}, ran |-> EmptyMap,
                       command |-> command_name, invoked |-> r.invoked,
                       exit |-> IF r.invoked THEN ran ELSE None]
    /\ UNCHANGED <<plugins, enabled_plugins, fs, config, rs, loader_vars, theme_vars>>

\* the registry with commands: no dependencies and no hooks are declared
InitCommands ==
    /\ InitRegistry({<<NoDeps, NoHooks>>})
    /\ ResolverIdle /\ LoaderIdle /\ ThemesIdle

NextCommands ==
    \/ Next
    \/ \E plugin_name \in Names, command_name \in CommandNames :
          ExecuteCommand(plugin_name, command_name)

SpecCommands == InitCommands /\ [][NextCommands]_vars

\* C19: execute_command tests its preconditions in order: NotFound for a
\* plugin that is not registered, else NotEnabled for one outside
\* enabled_plugins whether or not it has the command, else CommandNotFound
\* for a command the manifest lacks; the script runs only when all three
\* tests pass, and a script that exits with failure makes the call fail
C19_PreconditionOrder ==
    last.op = "execute_command" =>
        LET registered == last.arg \in DOMAIN plugins
            listed == InList(last.arg)
            declared == registered /\ DeclaresCommand(plugins[last.arg], last.command)
        IN  /\ ~registered => last.res = "NotFound"
            /\ (registered /\ ~listed) => last.res = "NotEnabled"
            /\ (registered /\ listed /\ ~declared) => last.res = "CommandNotFound"
            /\ last.invoked => (registered /\ listed /\ declared)
            /\ (last.invoked /\ last.exit = "failed") => last.res = "CommandScriptFailed"
            /\ last.res = "Ok" => (last.invoked /\ last.exit = "ok")

\* execute_command has failed with NotEnabled for a registered plugin that
\* declares the command
C19_Witness ==
    /\ last.op = "execute_command" /\ last.res = "NotEnabled"
    /\ last.arg \in DOMAIN plugins
    /\ DeclaresCommand(plugins[last.arg], last.command)
    /\ ~last.invoked

(***************************************************************************)
(* C20.  Without the profile the resolver returns its input.               *)
(***************************************************************************)
\* the name get_active_profile looks up is not a key of profiles
ProfileMissing ==
    (IF rs.profile_name = None THEN config.default_profile ELSE rs.profile_name)
        \notin DOMAIN config.profiles

\* C20: when the requested profile, or the default profile when none is
\* requested, is not in profiles, resolve_variables returns its input as it
\* is: nothing is substituted, not even a placeholder of a global variable
C20_MissingProfileReturnsInput ==
    (rs.pc = "done" /\ ProfileMissing) =>
        /\ rs.result = rs.input
        /\ rs.visited = {}
        /\ resolve_variables(config, rs.input, rs.profile_name) = rs.input

\* a call without its profile has returned an input whose first placeholder
\* names a global variable
C20_Witness ==
    /\ rs.pc = "done" /\ ProfileMissing
    /\ HasMatch(rs.input)
    /\ Captures(rs.input).var_name \in DOMAIN config.variables
    /\ rs.result = rs.input

(***************************************************************************)
(* C21.  A placeholder of a name defined nowhere is replaced by "".        *)
(***************************************************************************)
\* the positions of s where pat occurs
Occurrences(s, pat) ==
    {i \in 1..(Len(s) - Len(pat) + 1) : SubSeq(s, i, i + Len(pat) - 1) = pat}

Token(var_name) == <<"$", "{">> \o var_name \o <<"}">>

\* an iteration whose placeholder names a variable that neither the profile
\* nor the globals define and that was not met before
SubstitutesUndefined ==
    /\ rs.pc = "loop"
    /\ HasMatch(rs.result)
    /\ Captures(rs.result).var_name \notin DOMAIN ActiveVariables
    /\ Captures(rs.result).var_name \notin DOMAIN config.variables
    /\ Captures(rs.result).var_name \notin rs.visited

ActiveSetAs(name) ==
    last.op = "set_theme" /\ last.res = "Ok" /\ last.arg = name

\* C22: a successful reload_theme after a successful set_theme(n) makes the
\* active slot and the cache entry of n the freshly parsed stored theme n, and
\* reload_theme with an empty active slot fails
C22_ReloadRefreshesActive ==
    [][ReloadTheme =>
          /\ is_none(active_theme) =>
                /\ last'.res = "No active theme to reload"
                /\ UNCHANGED <<theme_cache, active_theme>>
          /\ \A n \in ThemeNames :
                (ActiveSetAs(n) /\ last'.res = "Ok") =>
                    /\ load_theme(fs, n).res = "Ok"
                    /\ active_theme' = load_theme(fs, n).theme
                    /\ n \in DOMAIN theme_cache'
                    /\ theme_cache'[n] = load_theme(fs, n).theme[1]]_vars

\* the reload that does what C22 says: nord.toml changed after
\* set_theme("nord") and the slot and the cache hold its new content
C22_Witness ==
    /\ last.op = "reload_theme" /\ last.res = "Ok"
    /\ ~is_none(active_theme) /\ active_theme[1].name = "nord"
    /\ "nord" \in DOMAIN theme_cache
    /\ theme_cache["nord"] = active_theme[1]
    /\ load_theme(fs, "nord").theme = active_theme

(***************************************************************************)
(* The getters of the active theme (src/src/themes.rs 321-342).            *)
(***************************************************************************)
\* what a getter has to return for key in the active theme, where part is
\* "colors" or "variables" and missing is the getter's own error
Expected(part, key, missing) ==
    IF is_none(active_theme) THEN Value("No active theme", "")
    ELSE Reads(active_theme[1][part], key, missing)

Returns(op, key, value) ==
    /\ last'.op = op /\ last'.arg = key
    /\ last'.res = value.res /\ last'.value = value.value

\* C23: get_theme_color and get_theme_variable fail with "No active theme"
\* exactly when the slot is empty, with "... not found" exactly when a theme is
\* active and lacks the key, return the value exactly when it is active and
\* has the key, and leave the slot and the cache as they were
C23_GetterErrorKinds ==
    [][/\ \A k \in ColorNames :
             GetThemeColor(k) =>
                 /\ Returns("get_theme_color", k, Expected("colors", k, "Color not found"))
                 /\ last'.res = "No active theme" <=> is_none(active_theme)
                 /\ last'.res = "Color not found" <=>
                        (~is_none(active_theme) /\ k \notin DOMAIN active_theme[1].colors)
                 /\ UNCHANGED <<theme_cache, active_theme>>
       /\ \A k \in VariableNames :
             GetThemeVariable(k) =>
                 /\ Returns("get_theme_variable", k,
                            Expected("variables", k, "Variable not found"))
                 /\ last'.res = "No active theme" <=> is_none(active_theme)
                 /\ last'.res = "Variable not found" <=>
                        (~is_none(active_theme) /\ k \notin DOMAIN active_theme[1].variables)
                 /\ UNCHANGED <<theme_cache, active_theme>>]_vars

\* a theme without the variable gap is active and get_theme_variable("gap")
\* answered "Variable not found"
C23_Witness ==
    /\ last.op = "get_theme_variable" /\ last.arg = "gap"
    /\ last.res = "Variable not found"
    /\ ~is_none(active_theme) /\ "gap" \notin DOMAIN active_theme[1].variables
    /\ "background" \in DOMAIN active_theme[1].colors

(***************************************************************************)
(* install_plugin (src/src/plugins.rs 520-571).                            *)
(***************************************************************************)
\* C24: install_plugin fails with NotFound for a source directory without a
\* manifest and with AlreadyInstalled when the directory named after the
\* manifest's name exists, both leaving plugins and enabled_plugins as they
\* were; when it succeeds the plugin is registered under its manifest name
\* with state Installed and is not in enabled_plugins
C24_InstallOutcomes ==
    [][\A source_dir \in SourceDirs :
          Install(source_dir) =>
              /\ source_dir \notin DOMAIN fs =>
                    /\ last'.res = "NotFound"
                    /\ UNCHANGED <<plugins, enabled_plugins>>
              /\ (source_dir \in DOMAIN fs
                    /\ Path("cfg", fs[source_dir].name) \in DOMAIN fs) =>
                    /\ last'.res = "AlreadyInstalled"
                    /\ UNCHANGED <<plugins, enabled_plugins>>
              /\ last'.res = "Ok" =>
                    LET name == fs[source_dir].name
                    IN  /\ name \in DOMAIN plugins'
                        /\ plugins'[name].manifest = fs[source_dir]
                        /\ plugins'[name].state = "Installed"
                        /\ ~Contains(enabled_plugins', name)]_vars

(***************************************************************************)
(* The imports of one load (src/src/config.rs 186-222).                    *)
(***************************************************************************)
\* the path process_import reads for an import of the document at load.path
FullPath(import) ==
    IF is_absolute(import.path) THEN import.path ELSE join(load.path.dir, import.path)

\* the next import resolves to a path this load has processed
NextIsRepeat ==
    /\ load.pc = "imports" /\ load.pending # <<>>
    /\ FullPath(Head(load.pending)) \in load.processed

\* C25: no resolved path is merged twice in one load, and an import that
\* resolves to a path already processed is skipped: no error, the document,
\* the merges done and the set of processed paths stay as they are, and the
\* load goes on with the next import, whatever the merge flag of the entry
C25_RepeatedImportSkipped ==
    [][/\ \A i, j \in DOMAIN load'.merged :
             load'.merged[i].full_path = load'.merged[j].full_path => i = j
       /\ (NextIsRepeat /\ ProcessImport) =>
             /\ config' = config
             /\ load'.merged = load.merged
             /\ load'.processed = load.processed
             /\ load'.pending = Tail(load.pending)
             /\ load'.res.kind = IF load'.pending = <<>> THEN "Ok" ELSE None
             /\ load'.pc = IF load'.pending = <<>> THEN "done" ELSE "imports"]_vars

\* the root imports a by a relative path with merge = true and then by its
\* absolute path with merge = false; a was merged once, the load succeeded and
\* the document is the one the first merge gave
C25_Witness ==
    /\ load.pc = "done" /\ load.res = LoadOk
    /\ fs[RootPath].doc.imports =
           <<Import(Rel("a"), TRUE), Import(Abs(ConfigDir, "a"), FALSE)>>
    /\ Len(load.merged) = 1
    /\ "k" \in DOMAIN load.merged[1].before.variables
    /\ "k" \in DOMAIN load.merged[1].other.variables
    /\ config = load.merged[1].after
    /\ config.variables["k"] = "r"

\* the file at path cannot be read, or its text is no document
Unreadable(path) == path \notin DOMAIN fs
Unusable(path) == Unreadable(path) \/ ~fs[path].parses

ErrorKind(what, path) ==
    IF Unreadable(path) THEN "Failed to read " \o what \o " file"
    ELSE "Failed to parse " \o what \o " file"

\* C26: a load that meets an unreadable or unparsable file, the root or an
\* import, ends with the error of that file naming its path and returns no
\* Config; the imports after it are still pending, nothing after it was read,
\* and no step follows; a load that meets none returns the document
C26_FailedLoadReturnsNothing ==
    load.pc = "done" =>
        /\ ~ENABLED NextLoad
        /\ IF Unusable(RootPath)
           THEN /\ load.res = [kind |-> ErrorKind("config", RootPath), path |-> RootPath]
                /\ is_none(load.returned)
                /\ load.processed = {} /\ load.merged = <<>>
           ELSE LET imports == fs[RootPath].doc.imports
                    bad == {i \in DOMAIN imports : Unusable(FullPath(imports[i]))}
                IN  IF bad = {}
                    THEN load.res = LoadOk /\ load.returned = Some(config)
                    ELSE LET i == CHOOSE b \in bad : \A c \in bad : b <= c
                             path == FullPath(imports[i])
                         IN  /\ load.res = [kind |-> ErrorKind("import", path), path |-> path]
                             /\ is_none(load.returned)
                             /\ load.pending = SubSeq(imports, i + 1, Len(imports))
                             /\ load.processed = {FullPath(imports[j]) : j \in 1..i}
                             /\ \A m \in DOMAIN load.merged :
                                   load.merged[m].full_path \in
                                       {FullPath(imports[j]) : j \in 1..(i - 1)}

\* the first import of the root is a file that does not parse and the second
\* one is a readable document: the load failed naming the first, returned
\* nothing, and the second is still pending
C26_Witness ==
    /\ load.pc = "done"
    /\ load.res.kind = "Failed to parse import file"
    /\ load.res.path = Abs(ConfigDir, "a")
    /\ is_none(load.returned)
    /\ load.pending = <<Import(Rel("b"), TRUE)>>
    /\ Abs(ConfigDir, "b") \in DOMAIN fs
    /\ Abs(ConfigDir, "b") \notin load.processed

(***************************************************************************)
(* enable_plugin and disable_plugin on a plugin already in the requested   *)
(* condition (src/src/plugins.rs 439-447, 485-493).                        *)
(***************************************************************************)
\* the call returned res, worked on no plugin and left the registry as it was
LeavesRegistry(res) ==
    /\ last'.res = res /\ last'.trace = <<>>
    /\ UNCHANGED <<plugins, enabled_plugins>>

\* the step is the call op(name): every call leaves its record in last
Calls(op, name) == last'.op = op /\ last'.arg = name

\* C27: enable_plugin of a name in enabled_plugins and disable_plugin of a
\* registered name not in enabled_plugins return Ok and change nothing;
\* enable_plugin and disable_plugin of an unregistered name fail with
\* NotFound and change nothing
C27_NoOpAndUnknown ==
    [][\A name \in Names :
          /\ (Calls("enable", name) /\ name \in DOMAIN plugins
                /\ Contains(enabled_plugins, name)) => LeavesRegistry("Ok")
          /\ (Calls("disable", name) /\ name \in DOMAIN plugins
                /\ ~Contains(enabled_plugins, name)) => LeavesRegistry("Ok")
          /\ ((Calls("enable", name) \/ Calls("disable", name))
                /\ name \notin DOMAIN plugins) => LeavesRegistry("NotFound")]_vars

\* two plugins are enabled and enable_plugin of the first of the list was
\* called again: it returned Ok and the list is as it was
C27_Witness ==
    /\ last.op = "enable" /\ last.res = "Ok" /\ last.trace = <<>>
    /\ Len(enabled_plugins) = 2
    /\ last.arg = enabled_plugins[1]
    /\ last.arg \in DOMAIN plugins
    /\ plugins[last.arg].manifest.dependencies # EmptyMap

\* the import entries of the root document as written in its file
RootImports == IF Unusable(RootPath) THEN <<>> ELSE fs[RootPath].doc.imports

RECURSIVE InheritedImports(_, _)
\* the imports lists of the files the entries resolve to, each file once, in
\* the order of the entries
InheritedImports(entries, seen) ==
    IF entries = <<>> THEN <<>>
    ELSE LET path == FullPath(Head(entries))
         IN  IF path \in seen THEN InheritedImports(Tail(entries), seen)
             ELSE fs[path].doc.imports
                      \o InheritedImports(Tail(entries), seen \cup {path})

RECURSIVE Effective(_, _)
\* the entries that are merged: those whose path no earlier entry resolves to
Effective(entries, seen) ==
    IF entries = <<>> THEN <<>>
    ELSE LET path == FullPath(Head(entries))
         IN  IF path \in seen THEN Effective(Tail(entries), seen)
             ELSE <<Head(entries)>> \o Effective(Tail(entries), seen \cup {path})

RECURSIVE FoldImports(_, _)
\* merge_config folded from the left over the entries
FoldImports(document, entries) ==
    IF entries = <<>> THEN document
    ELSE FoldImports(merge_config(document, fs[FullPath(Head(entries))].doc,
                                  Head(entries).merge),
                     Tail(entries))

\* the value the file of an entry gives to the global variable key
DefinedBy(entry, key) == fs[FullPath(entry)].doc.variables[key]

\* C29: the document a load returns is merge_config folded from the left over
\* the imports in declaration order; a global variable the root lacks and
\* several imports define has the value of the first of them when all have
\* merge = true, and of the last one with merge = false when one after the
\* first has merge = false
C29_LeftFoldInDeclarationOrder ==
    (load.pc = "done" /\ load.res = LoadOk) =>
        LET entries == Effective(RootImports, {})
            root == [fs[RootPath].doc EXCEPT !.imports = <<>>]
            defining == {i \in DOMAIN entries :
                            "k" \in DOMAIN fs[FullPath(entries[i])].doc.variables}
        IN  /\ config = FoldImports(root, entries)
            /\ Len(load.merged) = Len(entries)
            /\ \A i \in DOMAIN entries : load.merged[i].import = entries[i]
            /\ ("k" \notin DOMAIN root.variables /\ defining # {}) =>
                  LET first == CHOOSE i \in defining : \A j \in defining : i <= j
                      replacing == {i \in defining : i > first /\ ~entries[i].merge}
                  IN  /\ (\A i \in defining : entries[i].merge) =>
                             config.variables["k"] = DefinedBy(entries[first], "k")
                      /\ replacing # {} =>
                             LET last_one == CHOOSE i \in replacing :
                                                 \A j \in replacing : j <= i
                             IN  config.variables["k"] =
                                     DefinedBy(entries[last_one], "k")

\* the root lacks k and imports a with merge = true and then b with
\* merge = false, both define k: the returned document has b's value
C29_Witness ==
    /\ load.pc = "done" /\ load.res = LoadOk
    /\ RootImports = <<Import(Rel("a"), TRUE), Import(Rel("b"), FALSE)>>
    /\ "k" \notin DOMAIN fs[RootPath].doc.variables
    /\ "k" \in DOMAIN fs[Abs(ConfigDir, "a")].doc.variables
    /\ DefinedBy(RootImports[1], "k") = "a"
    /\ DefinedBy(RootImports[2], "k") = "b"
    /\ config.variables["k"] = "b"

(***************************************************************************)
(* The platform block under merge = false (src/src/config.rs 259-276).     *)
(***************************************************************************)
HyprlandFields == {"config_path", "modules", "theme", "keybindings", "autostart"}

\* C30: an import merged with merge = false gives the target every field of
\* its platform block when the target has no config_path, and leaves every
\* field of the target's block as it was when the target has one
C30_ReplaceBlockUnlessPath ==
    \A i \in MergesWith(FALSE) :
        LET before == load.merged[i].before.hyprland
            other == load.merged[i].other.hyprland
            after == load.merged[i].after.hyprland
        IN  /\ DOMAIN after = HyprlandFields
            /\ \A field \in HyprlandFields :
                  after[field] = IF is_none(before.config_path) THEN other[field]
                                 ELSE before[field]

\* a merge with merge = false where the target and the import both have a
\* config_path and differ in every field: the target's block is as before
C30_Witness ==
    \E i \in MergesWith(FALSE) :
        LET before == load.merged[i].before.hyprland
            other == load.merged[i].other.hyprland
            after == load.merged[i].after.hyprland
        IN  /\ ~is_none(before.config_path) /\ ~is_none(other.config_path)
            /\ \A field \in HyprlandFields : before[field] # other[field]
            /\ after = before

(***************************************************************************)
(* set_theme and the cache (src/src/themes.rs 278-292, 365-391).           *)
(***************************************************************************)
\* C31: set_theme(name) with name in the cache succeeds with the cached theme
\* whatever the storage holds and leaves the cache as it is; with name not in
\* the cache it succeeds exactly when load_theme does and then puts the loaded
\* theme in the cache under name; after success the slot holds the cache
\* entry of name
C31_CacheHitSkipsStorage ==
    [][\A name \in ThemeNames :
          SetTheme(name) =>
              /\ name \in DOMAIN theme_cache =>
                    /\ last'.res = "Ok"
                    /\ active_theme' = Some(theme_cache[name])
                    /\ theme_cache' = theme_cache
              /\ name \notin DOMAIN theme_cache =>
                    /\ last'.res = load_theme(fs, name).res
                    /\ last'.res = "Ok" =>
                          /\ DOMAIN theme_cache' = DOMAIN theme_cache \cup {name}
                          /\ theme_cache'[name] = load_theme(fs, name).theme[1]
                          /\ \A other \in DOMAIN theme_cache :
                                theme_cache'[other] = theme_cache[other]
                    /\ last'.res # "Ok" => theme_cache' = theme_cache
              /\ last'.res = "Ok" =>
                    /\ name \in DOMAIN theme_cache'
                    /\ active_theme' = Some(theme_cache'[name])
              /\ fs' = fs]_vars

\* set_theme("nord") was answered from the cache while the storage holds
\* another theme nord than the cached one
C31_Witness ==
    /\ last.op = "set_theme" /\ last.arg = "nord" /\ last.res = "Ok" /\ last.hit
    /\ load_theme(fs, "nord").res = "Ok"
    /\ load_theme(fs, "nord").theme # active_theme
    /\ active_theme = Some(theme_cache["nord"])

(***************************************************************************)
(* Theme::merge (src/src/themes.rs 110-125) on themes with all their       *)
(* fields.  The values of the receiver's maps are "s" and those of the     *)
(* merged themes "o", so what a key holds tells where it came from.        *)
(***************************************************************************)
FullTheme(name, author, description, version, extends, colors, variables, metadata) ==
    [name |-> name, author |-> author, description |-> description,
     version |-> version, extends |-> extends, colors |-> colors,
     variables |-> variables, metadata |-> metadata]

\* HashMap::insert of every entry of other_map into self_map
InsertEach(self_map, other_map) ==
    [key \in DOMAIN self_map \cup DOMAIN other_map |->
        IF key \in DOMAIN other_map THEN other_map[key] ELSE self_map[key]]

\* a merge that keeps the receiver's value of a key both have
MergeKeepingOwn(self, other) ==
    [self EXCEPT !.colors = InsertEach(other.colors, self.colors),
                 !.variables = InsertEach(other.variables, self.variables),
                 !.metadata = InsertEach(other.metadata, self.metadata)]

\* Theme::merge
theme_merge(self, other) ==
    [self EXCEPT !.colors = InsertEach(self.colors, other.colors),
                 !.variables = InsertEach(self.variables, other.variables),
                 !.metadata = InsertEach(self.metadata, other.metadata)]

Tagged(keys, tag) == [key \in keys |-> tag]

Receivers ==
    {FullTheme("mine", Some("me"), Absent, "0.1.0", extends,
               Tagged(colors, "s"), Tagged(variables, "s"), Tagged(metadata, "s")) :
        extends \in {Absent, Some("base")}, colors \in SUBSET {"background", "accent"},
        variables \in SUBSET {"gap"}, metadata \in SUBSET {"license"}}

MergedThemes ==
    {FullTheme("theirs", Absent, Some("other"), "2.0.0", Some("mine"),
               Tagged(colors, "o"), Tagged(variables, "o"), Tagged(metadata, "o")) :
        colors \in SUBSET {"background", "accent"},
        variables \in SUBSET {"gap"}, metadata \in SUBSET {"license"}}

\* the record of a merge: the receiver before and after, the theme merged in,
\* and whether the same theme was merged by the call before
MergeCall(op, before, other, self, again) ==
    [op |-> op, before |-> before, other |-> other, self |-> self, again |-> again]

MergeTheme(other) ==
    /\ last' = MergeCall("merge", last.self, other, theme_merge(last.self, other),
                         last.op = "merge" /\ last.other = other)
    /\ UNCHANGED <<plugins, enabled_plugins, fs, config, rs, loader_vars, theme_vars>>

InitMerge ==
    /\ plugins = EmptyMap
    /\ enabled_plugins = <<>>
    /\ fs = EmptyMap
    /\ ResolverIdle /\ LoaderIdle /\ ThemesIdle
    /\ \E self \in Receivers, other \in MergedThemes :
          last = MergeCall("new", self, other, self, FALSE)

NextMerge == \E other \in MergedThemes : MergeTheme(other)

SpecMerge == InitMerge /\ [][NextMerge]_vars

ThemeMaps == {"colors", "variables", "metadata"}
ThemeScalars == {"name", "author", "description", "version", "extends"}

\* C32: after merge(other) each of colors, variables and metadata has the keys
\* of both, other's value for every key of other and the receiver's former
\* value for every other key, the five scalar fields are the receiver's, and
\* a second merge of the same other leaves the receiver as it is
C32_MergeOverwritesAndIsIdempotent ==
    last.op = "merge" =>
        /\ \A part \in ThemeMaps :
              /\ DOMAIN last.self[part] =
                     DOMAIN last.before[part] \cup DOMAIN last.other[part]
              /\ \A key \in DOMAIN last.other[part] :
                    last.self[part][key] = last.other[part][key]
              /\ \A key \in DOMAIN last.before[part] \ DOMAIN last.other[part] :
                    last.self[part][key] = last.before[part][key]
        /\ \A field \in ThemeScalars : last.self[field] = last.before[field]
        /\ last.again => last.self = last.before

\* the receiver and the merged theme both had the color background and the
\* variable gap, the receiver alone the color accent: background and gap hold
\* the merged theme's value, accent the receiver's, and the same theme merged
\* again changed nothing
C32_Witness ==
    /\ last.op = "merge" /\ last.again
    /\ last.other.colors = Tagged({"background"}, "o")
    /\ last.other.variables = Tagged({"gap"}, "o")
    /\ last.self.colors = [background |-> "o", accent |-> "s"]
    /\ last.self.variables = Tagged({"gap"}, "o")
    /\ last.self.name = "mine"

(***************************************************************************)
(* The registry with every operation: the dependency graphs of Spec and    *)
(* the commands of SpecCommands.                                           *)
(***************************************************************************)
SpecRegistry == Init /\ [][NextCommands]_vars

\* the values of PluginState (src/src/plugins.rs)
PluginStates == {"NotInstalled", "Installed", "Enabled", "Error"}

\* C33: every registered plugin has state Installed or Enabled, whatever
\* calls were made and whichever of them failed
C33_OnlyInstalledOrEnabled ==
    \A name \in DOMAIN plugins :
        /\ plugins[name].state \in PluginStates
        /\ plugins[name].state \in {"Installed", "Enabled"}

\* enable_plugin failed on a dependency whose version does not fit while
\* another plugin is enabled: the plugin it was called for is Installed
C33_Witness ==
    /\ last.op = "enable" /\ last.res = "DependencyVersionMismatch"
    /\ last.arg \in DOMAIN plugins
    /\ plugins[last.arg].state = "Installed"
    /\ \E name \in DOMAIN plugins : plugins[name].state = "Enabled"

\* C34: after a successful install_plugin the directory registered for the
\* plugin, the storage root joined with the manifest's name, is on the disk
\* and holds what the source directory holds, and install_plugin of the same
\* source fails with AlreadyInstalled
C34_InstalledDirectoryExists ==
    (last.op = "install" /\ last.res = "Ok") =>
        LET source_dir == Path("src", last.arg)
            name == fs[source_dir].name
        IN  /\ plugins[name].directory = Path("cfg", name)
            /\ plugins[name].directory \in DOMAIN fs
            /\ fs[plugins[name].directory] = fs[source_dir]
            /\ install_plugin(plugins, fs, source_dir).res = "AlreadyInstalled"

\* C35: every declared dependency of every plugin in enabled_plugins is
\* registered and in enabled_plugins
C35_EnabledSetClosed ==
    \A name \in Range(enabled_plugins) :
        /\ name \in DOMAIN plugins
        /\ \A dep_name \in DOMAIN plugins[name].manifest.dependencies :
              dep_name \in DOMAIN plugins /\ Contains(enabled_plugins, dep_name)

\* C36: disable_plugin(name) leaves every plugin that is neither name nor a
\* transitive dependent of name as it was, in enabled_plugins if it was there
\* and with its state; what is left of enabled_plugins is in its former
\* order, and the same plugins are registered
C36_DisableFrame ==
    [][\A name \in Names :
          Calls("disable", name) =>
              LET affected == TransDependents(plugins, name) \cup {name}
              IN  /\ \A p \in DOMAIN plugins \ affected :
                        /\ plugins'[p] = plugins[p]
                        /\ InList(p) => Contains(enabled_plugins', p)
                        /\ (InList(p) /\ plugins[p].state = "Enabled") =>
                              plugins'[p].state = "Enabled"
                  /\ enabled_plugins' =
                         SelectSeq(enabled_plugins,
                                   LAMBDA n : Contains(enabled_plugins', n))
                  /\ DOMAIN plugins' = DOMAIN plugins]_vars

\* A, B and C were enabled, B depends on A and C on B: disable_plugin("B")
\* disabled C and B and left A, the dependency of B, enabled
C36_Witness ==
    /\ last.op = "disable" /\ last.arg = "B" /\ last.res = "Ok"
    /\ last.trace = <<"C", "B">>
    /\ enabled_plugins = <<"A">>
    /\ plugins["A"].state = "Enabled"
    /\ "A" \in DepsOf(plugins, "B") /\ "B" \in DepsOf(plugins, "C")

(***************************************************************************)
(* Failures of set_theme and reload_theme (src/src/themes.rs 278-292,      *)
(* 350-362).                                                               *)
(***************************************************************************)
\* the errors of ThemeLoader::load_theme
LoadFailures == {"Theme not found", "Failed to parse theme file"}

\* C37: a set_theme or reload_theme that fails because the theme is not found
\* or does not parse leaves the active slot as it was, so the getters return
\* after the call what they returned before it
C37_FailedCallKeepsActive ==
    [][((\E name \in ThemeNames : SetTheme(name)) \/ ReloadTheme) =>
          (last'.res \in LoadFailures =>
              /\ active_theme' = active_theme
              /\ \A k \in ColorNames \cup VariableNames :
                    /\ get_theme_color(active_theme', k) = get_theme_color(active_theme, k)
                    /\ get_theme_variable(active_theme', k) =
                           get_theme_variable(active_theme, k))]_vars

\* a theme with the color background is active, reload_theme failed because
\* its file no longer parses, and get_theme_color("background") still
\* returns the color
C37_Witness ==
    /\ last.op = "reload_theme" /\ last.res = "Failed to parse theme file"
    /\ ~is_none(active_theme)
    /\ get_theme_color(active_theme, "background").res = "Ok"

(***************************************************************************)
(* ThemeLoader::list_themes (src/src/themes.rs 193-231).  A file two       *)
(* levels below a theme directory is <<dir, sub, stem, ext>>.  The three   *)
(* theme directories are all called "themes".                              *)
(***************************************************************************)
\* Path::file_name of a theme directory
DirFileName(dir) == "themes"

\* the names in the order of str::cmp, which compares bytes
NameRank ==
    [n \in {"Nord", "colors", "dark", "nord", "theme", "themes"} |->
        CASE n = "Nord" -> 1 [] n = "colors" -> 2 [] n = "dark" -> 3
          [] n = "nord" -> 4 [] n = "theme" -> 5 [] n = "themes" -> 6]

\* what one file of the walk adds to the list
Listed(path) ==
    LET stem == path[Len(path) - 1]
        ext == path[Len(path)]
    IN  IF ext \notin {"toml", "json"} THEN <<>>
        ELSE IF stem # "theme" THEN <<stem>>
        ELSE LET parent_name == IF Len(path) = 4 THEN path[2] ELSE DirFileName(path[1])
             IN  IF parent_name # DirFileName(path[1]) THEN <<parent_name>> ELSE <<>>

RECURSIVE ListedAll(_, _)
\* the pushes of the walk over the files in the order walk
ListedAll(disk, walk) ==
    IF walk = <<>> THEN <<>>
    ELSE (IF Head(walk) \in DOMAIN disk THEN Listed(Head(walk)) ELSE <<>>)
             \o ListedAll(disk, Tail(walk))

RECURSIVE dedup(_)
\* Vec::dedup: consecutive equal elements become one
dedup(s) ==
    IF Len(s) < 2 THEN s
    ELSE IF s[1] = s[2] THEN dedup(Tail(s))
    ELSE <<s[1]>> \o dedup(Tail(s))

\* a list that is neither sorted nor deduplicated
ListUnsorted(disk, walk) == ListedAll(disk, walk)

\* ThemeLoader::list_themes
list_themes(disk, walk) == dedup(SortByKey(ListedAll(disk, walk), NameRank))

\* the files a theme directory tree can hold here, in the order of one walk
ListFiles ==
    <<FlatFile("cfg", "nord", "toml"), <<"cfg", "nord", "colors", "toml">>,
      FlatFile("cfg", "theme", "toml"), FlatFile("cfg", "Nord", "json"),
      FlatFile("data", "dark", "json"), FlatFile("data", "nord", "json"),
      SubdirFile("loc", "nord", "toml"), SubdirFile("loc", "themes", "json")>>

ListDisks ==
    {[p \in {ListFiles[i] : i \in present} |->
         Parsed(Theme(p[2], EmptyMap, EmptyMap))] : present \in SUBSET DOMAIN ListFiles}

ListCall(op, arg, res, names) == [op |-> op, arg |-> arg, res |-> res, names |-> names]

ListThemes ==
    /\ last' = ListCall("list_themes", "", "Ok", list_themes(fs, ListFiles))
    /\ UNCHANGED <<plugins, enabled_plugins, fs, config, rs, loader_vars, theme_vars>>

LoadTheme(name) ==
    /\ last' = ListCall("load_theme", name, load_theme(fs, name).res, <<>>)
    /\ UNCHANGED <<plugins, enabled_plugins, fs, config, rs, loader_vars, theme_vars>>

InitList ==
    /\ plugins = EmptyMap
    /\ enabled_plugins = <<>>
    /\ ResolverIdle /\ LoaderIdle /\ ThemesIdle
    /\ last = ListCall("new", "", "Ok", <<>>)
    /\ fs \in ListDisks

NextList ==
    \/ ListThemes
    \/ \E name \in DOMAIN NameRank : LoadTheme(name)

SpecList == InitList /\ [][NextList]_vars

\* C38: every name list_themes returns is found by load_theme in the same
\* directories, and the list is in ascending order without duplicates
C38_ListedThemesLoad ==
    last.op = "list_themes" =>
        /\ \A i \in DOMAIN last.names :
              load_theme(fs, last.names[i]).res # "Theme not found"
        /\ \A i, j \in DOMAIN last.names :
              i < j => NameRank[last.names[i]] < NameRank[last.names[j]]

\* what holds of list_themes: the list is in ascending order without
\* duplicates, and a name that comes from a file directly in a theme
\* directory or from a theme.* file one level below is found by load_theme
C38_SortedAndLayoutNamesLoad ==
    last.op = "list_themes" =>
        /\ \A i, j \in DOMAIN last.names :
              i < j => NameRank[last.names[i]] < NameRank[last.names[j]]
        /\ \A p \in DOMAIN fs :
              (Len(p) = 3 \/ p[3] = "theme") =>
                  \A i \in DOMAIN Listed(p) :
                      /\ Contains(last.names, Listed(p)[i])
                      /\ load_theme(fs, Listed(p)[i]).res # "Theme not found"

\* nord is listed once although three files contribute it, dark is listed
\* before it, and both are found by load_theme
C38_Witness ==
    /\ last.op = "list_themes" /\ last.names = <<"dark", "nord">>
    /\ FlatFile("cfg", "nord", "toml") \in DOMAIN fs
    /\ FlatFile("data", "nord", "json") \in DOMAIN fs
    /\ SubdirFile("loc", "nord", "toml") \in DOMAIN fs
    /\ load_theme(fs, "nord").res = "Ok" /\ load_theme(fs, "dark").res = "Ok"

(***************************************************************************)
(* The PluginManager the host sees (src/src/lib.rs 16-72): it is made by   *)
(* new() and offers enable_plugin, disable_plugin, execute_command,        *)
(* execute_hook, get_plugins and get_plugin.  The plugin directories hold  *)
(* the plugins A, B and C.                                                 *)
(***************************************************************************)
\* PluginManager::get_plugins: the keys of the plugins map
get_plugins(map) == DOMAIN map

GetPlugins ==
    /\ last' = Call("get_plugins", "", "Ok", <<>>, get_plugins(plugins))
    /\ UNCHANGED <<plugins, enabled_plugins, fs, config, rs, loader_vars, theme_vars>>

\* get_plugin of the host: the manifest summary, or "Plugin not found"
GetPlugin(name) ==
    /\ last' = Call("get_plugin", name,
                    IF name \in DOMAIN plugins THEN "Ok" ELSE "NotFound", <<>>, {})
    /\ UNCHANGED <<plugins, enabled_plugins, fs, config, rs, loader_vars, theme_vars>>

NextHost ==
    \/ \E name \in Names : Enable(name)
    \/ \E name \in Names : Disable(name)
    \/ \E plugin_name \in Names, command_name \in CommandNames :
          ExecuteCommand(plugin_name, command_name)
    \/ \E hook_name \in HookNames : ExecuteHook(hook_name)
    \/ GetPlugins
    \/ \E name \in Names : GetPlugin(name)

SpecHost == Init /\ [][NextHost]_vars

\* the host goes on calling enable_plugin for every name
SpecHostFair == SpecHost /\ \A name \in Names : WF_vars(Enable(name))

\* C39: the host reaches a state in which get_plugins returns the name of a
\* plugin of the plugin directory and enable_plugin of that name has succeeded
C39_HostCanEnable ==
    <>(/\ last.op = "enable" /\ last.res = "Ok"
       /\ Path("loc", last.arg) \in DOMAIN fs
       /\ last.arg \in get_plugins(plugins))

\* what the host gets instead: no plugin is ever registered, get_plugins
\* returns nothing and every enable_plugin fails with "Plugin not found"
C39_HostRegistryStaysEmpty ==
    /\ get_plugins(plugins) = {} /\ enabled_plugins = <<>>
    /\ last.op = "enable" => last.res = "NotFound"
    /\ last.op = "get_plugins" => last.results = {}

====
